---- MODULE Spec2Model ----
(***************************************************************************)
(* Price-tracker aggregation pipeline: ScraperRegistry.searchAll fans out  *)
(* to the three registered scrapers, SearchService.searchAll filters,      *)
(* deduplicates, ranks, bounds and sorts what they return.                 *)
(*                                                                         *)
(* Strings are TLC strings; the text functions of the code (normalizeText, *)
(* tokenize, normalizeTitle, the extract* helpers) are computed character  *)
(* by character as the JavaScript computes them.                           *)
(***************************************************************************)
EXTENDS Integers, Sequences, FiniteSets, TLC

(***************************************************************************)
(* Character-level helpers (JavaScript String methods).                    *)
(***************************************************************************)
LowerChars == "abcdefghijklmnopqrstuvwxyz"
UpperChars == "ABCDEFGHIJKLMNOPQRSTUVWXYZ"
DigitChars == "0123456789"

CharAt(s, i) == SubSeq(s, i, i)

\* String.prototype.includes
Includes(hay, needle) ==
  \E i \in 1..(Len(hay) - Len(needle) + 1) : SubSeq(hay, i, i + Len(needle) - 1) = needle

IsLower(c) == Len(c) = 1 /\ Includes(LowerChars, c)
IsUpper(c) == Len(c) = 1 /\ Includes(UpperChars, c)
IsDigit(c) == Len(c) = 1 /\ Includes(DigitChars, c)
\* \s : the titles and queries of the model hold no whitespace but the space
IsSpace(c) == c = " "
\* \w
IsWordChar(c) == IsLower(c) \/ IsUpper(c) \/ IsDigit(c) \/ c = "_"

LowerOf(c) ==
  IF IsUpper(c)
    THEN LET i == CHOOSE k \in 1..Len(UpperChars) : CharAt(UpperChars, k) = c
         IN  CharAt(LowerChars, i)
    ELSE c

RECURSIVE ToLowerCase(_)
ToLowerCase(s) ==
  IF s = "" THEN "" ELSE LowerOf(CharAt(s, 1)) \o ToLowerCase(SubSeq(s, 2, Len(s)))

\* .replace(/[^a-z0-9\s]/g, ' ')
RECURSIVE NonAlnumToSpace(_)
NonAlnumToSpace(s) ==
  IF s = "" THEN ""
  ELSE LET c == CharAt(s, 1)
       IN  (IF IsLower(c) \/ IsDigit(c) \/ IsSpace(c) THEN c ELSE " ")
             \o NonAlnumToSpace(SubSeq(s, 2, Len(s)))

\* .replace(/[^a-z0-9\s]/g, '')
RECURSIVE StripNonAlnum(_)
StripNonAlnum(s) ==
  IF s = "" THEN ""
  ELSE LET c == CharAt(s, 1)
       IN  (IF IsLower(c) \/ IsDigit(c) \/ IsSpace(c) THEN c ELSE "")
             \o StripNonAlnum(SubSeq(s, 2, Len(s)))

\* .replace(/\s+/g, ' ')
RECURSIVE CollapseSpaces(_)
CollapseSpaces(s) ==
  IF Len(s) < 2 THEN s
  ELSE IF IsSpace(CharAt(s, 1)) /\ IsSpace(CharAt(s, 2))
         THEN CollapseSpaces(SubSeq(s, 2, Len(s)))
         ELSE CharAt(s, 1) \o CollapseSpaces(SubSeq(s, 2, Len(s)))

RECURSIVE TrimStart(_)
TrimStart(s) ==
  IF s # "" /\ IsSpace(CharAt(s, 1)) THEN TrimStart(SubSeq(s, 2, Len(s))) ELSE s

RECURSIVE TrimEnd(_)
TrimEnd(s) ==
  IF s # "" /\ IsSpace(CharAt(s, Len(s))) THEN TrimEnd(SubSeq(s, 1, Len(s) - 1)) ELSE s

Trim(s) == TrimEnd(TrimStart(s))

\* .split(' ')
RECURSIVE SplitSpace(_)
SplitSpace(s) ==
  IF \E i \in 1..Len(s) : IsSpace(CharAt(s, i))
    THEN LET i == CHOOSE k \in 1..Len(s) :
                    /\ IsSpace(CharAt(s, k))
                    /\ \A j \in 1..(k - 1) : ~IsSpace(CharAt(s, j))
         IN  <<SubSeq(s, 1, i - 1)>> \o SplitSpace(SubSeq(s, i + 1, Len(s)))
    ELSE <<s>>

\* Array.prototype.join(' ')
RECURSIVE JoinSpace(_)
JoinSpace(ws) ==
  IF ws = <<>> THEN ""
  ELSE IF Len(ws) = 1 THEN ws[1]
  ELSE ws[1] \o " " \o JoinSpace(Tail(ws))

Range(s) == {s[i] : i \in DOMAIN s}


(***************************************************************************)
(* The titles, queries and limits the model draws its inputs from.         *)
(***************************************************************************)
TitlePool ==
  { "Apple iPhone 15 (128GB) Black",
    "Apple iPhone 15 (128GB) Blue",
    "Apple iPhone 15 (Black, 128 GB)",
    "Apple iPhone 15 (Blue, 128 GB)",
    "Apple iPhone 15 (Black, 256 GB)",
    "Apple iPhone 15 (Blue, 256 GB)",
    "Apple iPhone 15 (Black, 512 GB)",
    "Apple iPhone 15 (Blue, 512 GB)",
    "Apple iPhone 15 (Black, 1 TB)",
    "Apple iPhone 15 (Blue, 1 TB)",
    "Apple iPhone 15 Pro (128GB) Black",
    "Apple iPhone 14 (128GB) Black",
    "iPhone 15 Pro Max Silicone Case",
    "Samsung Galaxy S24 Ultra (256GB)" }

QueryPool == {"iPhone 15"}


(***************************************************************************)
(* SearchService: word lists (constructor) and text utilities.             *)
(***************************************************************************)
stopWords ==
  { "for", "with", "and", "the", "a", "an", "of", "to", "in", "on", "by",
    "from", "new", "latest", "best", "buy", "online", "india", "price",
    "sale", "deal", "offer", "discount", "combo", "pack", "set", "piece",
    "is", "it", "at", "or", "be", "this", "that", "was", "are", "were",
    "has", "have", "had", "do", "does", "did", "will", "would", "could",
    "should", "may", "might", "can", "shall", "get", "got", "make" }

knownBrands ==
  { "iphone", "apple", "samsung", "oneplus", "xiaomi", "redmi", "realme",
    "oppo", "vivo", "pixel", "google", "motorola", "nothing", "poco",
    "iqoo", "nokia", "huawei", "honor", "asus", "rog",
    "dell", "hp", "lenovo", "acer", "msi", "macbook", "thinkpad",
    "surface", "microsoft", "intel", "amd", "nvidia",
    "nike", "adidas", "puma", "reebok", "skechers", "levis", "zara",
    "hm", "uniqlo", "gucci", "prada", "louis", "vuitton",
    "sony", "lg", "bosch", "philips", "dyson", "jbl", "bose",
    "boat", "fire", "boltt", "fossil", "titan", "casio", "timex" }

\* A service that knows no accessory keyword
accessoryKeywords_None == {}

accessoryKeywords ==
  { "case", "cover", "back cover", "tempered", "screen guard", "screen protector",
    "protector", "charger", "cable", "adapter", "earbuds", "earphones",
    "headphones", "power bank", "holder", "stand", "tripod", "watch strap",
    "skin", "sticker", "decal", "pouch", "sleeve", "cleaning kit", "stylus",
    "film", "mount", "grip", "ring holder", "pop socket", "armband",
    "car mount", "dock", "hub", "dongle", "otg", "memory card" }

apparelKeywords ==
  { "dress", "top", "shirt", "tshirt", "t-shirt", "kurta", "saree", "sari",
    "jeans", "jacket", "hoodie", "bra", "pant", "trouser", "skirt", "shoe",
    "sandal", "heels", "blouse", "lehenga", "dupatta", "palazzo", "shorts",
    "trackpant", "track pant", "jogger", "sweatshirt", "sweater", "cardigan",
    "blazer", "suit", "tie", "belt", "scarf", "shawl", "stole", "lingerie",
    "underwear", "boxers", "socks", "cap", "hat", "beanie", "watch band",
    "handbag", "purse", "wallet", "clutch", "tote", "backpack",
    "printed", "cotton", "polyester", "silk", "chiffon", "georgette" }

electronicsKeywords ==
  { "phone", "mobile", "smartphone", "laptop", "tablet", "camera", "tv",
    "television", "monitor", "speaker", "headphone", "earphone", "earbud",
    "smartwatch", "watch", "console", "gaming", "processor", "gpu", "ssd",
    "hdd", "ram", "router", "printer", "scanner", "projector", "drone",
    "gb", "tb", "5g", "4g", "wifi", "bluetooth", "amoled", "oled", "lcd" }

serviceColors ==
  { "red", "blue", "green", "black", "white", "gold", "silver", "grey",
    "gray", "pink", "purple", "orange", "yellow", "brown", "beige", "navy",
    "teal", "coral", "maroon", "cream", "ivory", "lavender", "midnight",
    "space", "starlight", "titanium", "graphite", "sierra", "alpine" }

isColor(token) == token \in serviceColors

normalizeText(text) == Trim(CollapseSpaces(NonAlnumToSpace(ToLowerCase(text))))

tokenize(text) ==
  SelectSeq(SplitSpace(normalizeText(text)),
            LAMBDA token : Len(token) > 1 /\ token \notin stopWords)

HasDigit(t) == \E i \in 1..Len(t) : IsDigit(CharAt(t, i))

\* Rule 3's alias table
brandAliases(brand) ==
  CASE brand = "iphone"  -> {"iphone", "apple iphone"}
    [] brand = "apple"   -> {"apple", "iphone"}
    [] brand = "samsung" -> {"samsung", "galaxy"}
    [] brand = "oneplus" -> {"oneplus", "one plus"}
    [] brand = "redmi"   -> {"redmi", "xiaomi redmi"}
    [] brand = "pixel"   -> {"pixel", "google pixel"}
    [] OTHER             -> {brand}

(***************************************************************************)
(* scoreRelevance.  The JavaScript score is the rational                   *)
(*   matched + 5*phrase + 1.5*colors + 3*matched/n + 2*brand + 2*numeric   *)
(* with n the number of distinct query tokens; the operator returns that   *)
(* score multiplied by 2n, an integer, and -1 for a rejection.  The factor *)
(* depends on the query alone, so the sign of a score and the order of two *)
(* scores of one query are those of the code.                              *)
(***************************************************************************)
scoreRelevance(searchQuery, title) ==
  LET queryNorm == normalizeText(searchQuery)
      titleNorm == normalizeText(title)
      queryTokens == tokenize(queryNorm)
      titleTokens == tokenize(titleNorm)
      queryTokenSet == Range(queryTokens)
      titleTokenSet == Range(titleTokens)
      brandTokens == SelectSeq(queryTokens, LAMBDA t : t \in knownBrands)
      numericTokens == SelectSeq(queryTokens, HasDigit)
      colorTokens == SelectSeq(queryTokens, isColor)
      isElectronicsQuery ==
        \E t \in queryTokenSet : t \in electronicsKeywords \/ t \in knownBrands
      allBrandsMatch ==
        \A brand \in Range(brandTokens) :
          brand \in titleTokenSet \/ Includes(titleNorm, brand)
      allNumericMatch ==
        \A num \in Range(numericTokens) : Includes(titleNorm, num)
      foundPhrase ==
        \E brand \in Range(brandTokens) :
          \E alias \in brandAliases(brand) :
            \E num \in Range(numericTokens) :
              \/ Includes(titleNorm, alias \o " " \o num)
              \/ Includes(titleNorm, alias \o num)
              \/ Includes(titleNorm, brand \o " " \o num)
              \/ Includes(titleNorm, brand \o num)
      isAccessory == \E kw \in accessoryKeywords : Includes(titleNorm, kw)
      isApparel == \E kw \in apparelKeywords : Includes(titleNorm, kw)
      matchedCount ==
        Cardinality({token \in queryTokenSet :
                       token \in titleTokenSet \/ Includes(titleNorm, token)})
      n == Cardinality(queryTokenSet)
      \* overlapRatio < minOverlap, over the integers
      belowMinOverlap ==
        IF n <= 3 THEN 2 * matchedCount < n ELSE 5 * matchedCount < 2 * n
      colorMatched ==
        Len(SelectSeq(colorTokens, LAMBDA c : Includes(titleNorm, c)))
  IN  IF queryNorm = "" \/ titleNorm = "" THEN -1
      ELSE IF queryTokens = <<>> THEN -1
      ELSE IF titleTokens = <<>> THEN -1
      ELSE IF brandTokens # <<>> /\ ~allBrandsMatch THEN -1
      ELSE IF numericTokens # <<>> /\ ~allNumericMatch THEN -1
      ELSE IF brandTokens # <<>> /\ numericTokens # <<>> /\ ~foundPhrase THEN -1
      ELSE IF isElectronicsQuery /\ isAccessory THEN -1
      ELSE IF isElectronicsQuery /\ isApparel THEN -1
      ELSE IF belowMinOverlap THEN -1
      ELSE IF n <= 2 /\ matchedCount < n THEN -1
      ELSE 2 * n * matchedCount
           + (IF Includes(titleNorm, queryNorm) THEN 10 * n ELSE 0)
           + 3 * n * colorMatched
           + 6 * matchedCount
           + (IF brandTokens # <<>> THEN 4 * n ELSE 0)
           + (IF numericTokens # <<>> THEN 4 * n ELSE 0)

(***************************************************************************)
(* ProductMatcher.  A JavaScript null string result is the empty string:   *)
(* the code only tests these results for truthiness and for equality, and  *)
(* none of these functions returns an empty string of its own.             *)
(***************************************************************************)
null == ""

\* brandMap, in insertion order
brandMap ==
  << [brand |-> "apple",     keywords |-> <<"iphone", "macbook", "ipad", "airpods", "apple watch">>],
     [brand |-> "samsung",   keywords |-> <<"galaxy", "samsung">>],
     [brand |-> "oneplus",   keywords |-> <<"oneplus">>],
     [brand |-> "xiaomi",    keywords |-> <<"xiaomi", "redmi", "poco">>],
     [brand |-> "realme",    keywords |-> <<"realme">>],
     [brand |-> "oppo",      keywords |-> <<"oppo">>],
     [brand |-> "vivo",      keywords |-> <<"vivo">>],
     [brand |-> "google",    keywords |-> <<"pixel">>],
     [brand |-> "motorola",  keywords |-> <<"moto", "motorola">>],
     [brand |-> "nothing",   keywords |-> <<"nothing">>],
     [brand |-> "asus",      keywords |-> <<"asus", "rog">>],
     [brand |-> "dell",      keywords |-> <<"dell", "xps", "inspiron">>],
     [brand |-> "hp",        keywords |-> <<"hp", "pavilion", "omen">>],
     [brand |-> "lenovo",    keywords |-> <<"lenovo", "thinkpad", "yoga">>],
     [brand |-> "acer",      keywords |-> <<"acer", "aspire">>],
     [brand |-> "msi",       keywords |-> <<"msi">>],
     [brand |-> "microsoft", keywords |-> <<"surface">>],
     [brand |-> "sony",      keywords |-> <<"sony", "wh-", "wf-">>],
     [brand |-> "jbl",       keywords |-> <<"jbl">>],
     [brand |-> "bose",      keywords |-> <<"bose">>],
     [brand |-> "boat",      keywords |-> <<"boat">>],
     [brand |-> "skullcandy", keywords |-> <<"skullcandy">>] >>

fillerWords == {"in", "for", "with", "and", "the", "a", "an", "of", "to", "official"}

modelSuffixes == {"pro", "max", "plus", "ultra", "standard"}

matcherColors ==
  { "black", "white", "blue", "red", "green", "gold", "silver", "grey", "gray",
    "pink", "purple", "orange", "yellow", "teal", "coral", "ultramarine",
    "midnight", "starlight", "titanium", "graphite", "sierra", "alpine",
    "natural", "desert", "cream", "ivory", "lavender", "bronze", "navy",
    "space gray", "space grey", "rose gold" }

\* .replace(/\b(in|for|...|official)\b/g, ''): on a string of [a-z0-9 ] a
\* match is a whole word, and its neighbouring spaces stay
RemoveFillers(s) ==
  LET ws == SplitSpace(s)
  IN  JoinSpace([i \in DOMAIN ws |-> IF ws[i] \in fillerWords THEN "" ELSE ws[i]])

normalizeTitle(title) ==
  IF title = "" THEN ""
  ELSE Trim(RemoveFillers(CollapseSpaces(StripNonAlnum(Trim(ToLowerCase(title))))))

extractBrand(title) ==
  LET \* the first entry of brandMap with a keyword in normalized, if any
      FirstOf(hits) ==
        IF hits = {} THEN null
        ELSE brandMap[CHOOSE k \in hits : \A m \in hits : k <= m].brand
      In(normalized) ==
        FirstOf({k \in DOMAIN brandMap :
                   \E j \in DOMAIN brandMap[k].keywords :
                     Includes(normalized, brandMap[k].keywords[j])})
  IN  In(normalizeTitle(title))

\* /\b([a-z0-9]+\s+(?:pro|max|plus|ultra|standard)?)\b/ on a normalized title:
\* the leftmost match starts at the first word, which must be followed by
\* white space; the suffix group joins it when the next word is a suffix
extractModel(title) ==
  LET normalized == normalizeTitle(title)
      ws == SplitSpace(normalized)
  IN  IF Len(ws) < 2 THEN null
      ELSE LET w1 == ws[1]
               \* the first non-empty word after w1, and its position in ws
               k == CHOOSE i \in 2..Len(ws) :
                      ws[i] # "" /\ \A j \in 2..(i - 1) : ws[j] = ""
           IN  IF ws[k] \in modelSuffixes
                 THEN JoinSpace(SubSeq(ws, 1, k))
                 ELSE w1

TitleWords(norm) == {w \in Range(SplitSpace(norm)) : Len(w) > 2}

\* The code's similarity is (matches / max) * 100 and is only compared with
\* 70: the operator returns its integer part.
calculateTitleSimilarity(title1, title2) ==
  LET Max(a, b) == IF a >= b THEN a ELSE b
      OfWords(words1, words2) ==
        IF words1 = {} \/ words2 = {} THEN 0
        ELSE (Cardinality(words1 \cap words2) * 100)
               \div Max(Cardinality(words1), Cardinality(words2))
      OfNorms(norm1, norm2) ==
        IF norm1 = norm2 THEN 100
        ELSE OfWords(TitleWords(norm1), TitleWords(norm2))
  IN  OfNorms(normalizeTitle(title1), normalizeTitle(title2))

\* /\((\w[\w\s]*?)(?:,|\))/i : the leftmost "(" that a word character
\* follows, with only word characters and spaces up to the first "," or ")"
extractColor(title) ==
  LET Close(i, j) ==
        /\ j >= i + 2
        /\ CharAt(title, j) \in {",", ")"}
        /\ \A m \in (i + 2)..(j - 1) :
             IsWordChar(CharAt(title, m)) \/ IsSpace(CharAt(title, m))
      Opens(i) ==
        /\ CharAt(title, i) = "("
        /\ i + 1 <= Len(title)
        /\ IsWordChar(CharAt(title, i + 1))
        /\ \E j \in (i + 2)..Len(title) : Close(i, j)
  IN  IF \E i \in 1..Len(title) : Opens(i)
        THEN LET i == CHOOSE a \in 1..Len(title) :
                        Opens(a) /\ \A b \in 1..(a - 1) : ~Opens(b)
                 j == CHOOSE a \in (i + 2)..Len(title) :
                        Close(i, a) /\ \A b \in (i + 2)..(a - 1) : ~Close(i, b)
                 candidate == ToLowerCase(Trim(SubSeq(title, i + 1, j - 1)))
             IN  IF candidate \in matcherColors THEN candidate ELSE null
        ELSE null

\* /(\d+)\s*(gb|tb|mb)/i : the leftmost run of digits that a unit follows,
\* spaces between them allowed
extractStorage(title) ==
  LET RunEnd(i) == CHOOSE j \in i..Len(title) :
                     /\ \A m \in i..j : IsDigit(CharAt(title, m))
                     /\ (j = Len(title) \/ ~IsDigit(CharAt(title, j + 1)))
      UnitAt(i) == CHOOSE u \in (RunEnd(i) + 1)..(Len(title) + 1) :
                     /\ \A m \in (RunEnd(i) + 1)..(u - 1) : IsSpace(CharAt(title, m))
                     /\ (u > Len(title) \/ ~IsSpace(CharAt(title, u)))
      Unit(i) == ToLowerCase(SubSeq(title, UnitAt(i), UnitAt(i) + 1))
      Hit(i) == /\ IsDigit(CharAt(title, i))
                /\ UnitAt(i) + 1 <= Len(title)
                /\ Unit(i) \in {"gb", "tb", "mb"}
  IN  IF \E i \in 1..Len(title) : Hit(i)
        THEN LET i == CHOOSE a \in 1..Len(title) :
                        Hit(a) /\ \A b \in 1..(a - 1) : ~Hit(b)
             IN  SubSeq(title, i, RunEnd(i)) \o Unit(i)
        ELSE null

doProductsMatch(product1, product2) ==
  LET title1 == product1.title
      title2 == product2.title
      \* `x1 && x2 && x1 !== x2` for an extracted brand, colour, storage, model
      Differ(x1, x2) == x1 # null /\ x2 # null /\ x1 # x2
  IN  IF calculateTitleSimilarity(title1, title2) < 70 THEN FALSE
      ELSE IF Differ(extractBrand(title1), extractBrand(title2)) THEN FALSE
      ELSE IF Differ(extractColor(title1), extractColor(title2)) THEN FALSE
      ELSE IF Differ(extractStorage(title1), extractStorage(title2)) THEN FALSE
      ELSE IF Differ(extractModel(title1), extractModel(title2)) THEN FALSE
      ELSE TRUE

\* doProductsMatch over the titles of the model, computed once
matchTable ==
  [t1 \in TitlePool, t2 \in TitlePool |->
     doProductsMatch([title |-> t1], [title |-> t2])]

ProductsMatch(product1, product2) == matchTable[product1.title, product2.title]

\* JavaScript truthiness of a price; 0 stands for every falsy price
\* (null, undefined, NaN and 0 take the same branches wherever it is tested)
Truthy(price) == price # 0

\* One iteration that never replaces the kept product
DedupStep_KeepsKept(seen, product) ==
  IF \E a \in DOMAIN seen : ProductsMatch(product, seen[a])
    THEN seen
    ELSE Append(seen, product)

\* One iteration of deduplicateByWebsite's outer loop: seen and deduplicated
\* always hold the same products, so one list is both.
DedupStep(seen, product) ==
  LET \* the inner loop stops at the first i with a match (0: it found none)
      FirstOf(matching) ==
        IF matching = {} THEN 0
        ELSE CHOOSE a \in matching : \A b \in matching : a <= b
      Merge(i) ==
        IF i = 0 THEN Append(seen, product)
        ELSE IF Truthy(product.price) /\ Truthy(seen[i].price)
                  /\ product.price < seen[i].price
               THEN [seen EXCEPT ![i] = product]
               ELSE seen
  IN  Merge(FirstOf({a \in DOMAIN seen : ProductsMatch(product, seen[a])}))

RECURSIVE DedupLoop(_, _)
DedupLoop(seen, products) ==
  IF products = <<>> THEN seen
  ELSE DedupLoop(DedupStep(seen, Head(products)), Tail(products))

deduplicateByWebsite(products) ==
  IF Len(products) <= 1 THEN products ELSE DedupLoop(<<>>, products)

(***************************************************************************)
(* JavaScript array helpers.                                               *)
(***************************************************************************)
\* Array.prototype.slice(0, end); a NaN end behaves as 0
Slice0(s, end) ==
  LET stop == IF end < 0 THEN (IF Len(s) + end < 0 THEN 0 ELSE Len(s) + end)
              ELSE (IF end > Len(s) THEN Len(s) ELSE end)
  IN  SubSeq(s, 1, stop)

\* Array.prototype.sort (stable) under a comparator that is a weak order;
\* Before(a, b) is "compare(a, b) < 0"
StableSort(s, Before(_, _)) ==
  LET Pos(i) == 1 + Cardinality({j \in DOMAIN s : Before(s[j], s[i])})
                  + Cardinality({j \in 1..(i - 1) :
                                   ~Before(s[j], s[i]) /\ ~Before(s[i], s[j])})
  IN  [k \in DOMAIN s |-> s[CHOOSE i \in DOMAIN s : Pos(i) = k]]

RECURSIVE Flatten(_)
Flatten(ss) == IF ss = <<>> THEN <<>> ELSE Head(ss) \o Flatten(Tail(ss))

(***************************************************************************)
(* SearchService: filtering, ranking, sorting.                             *)
(***************************************************************************)
allowedWebsites == {"amazon", "flipkart", "myntra", "croma", "reliance"}

\* top results kept per website (RULE 5)
TopPerWebsite == 5

\* price floor (RULE 2, normalizeResults)
MinPrice == 100

sourcePriority(platform) ==
  CASE platform = "amazon"   -> 1
    [] platform = "flipkart" -> 2
    [] platform = "myntra"   -> 3
    [] OTHER                 -> 99

\* scoreRelevance over the queries and titles of the model, computed once
scoreTable ==
  [q \in QueryPool, t \in TitlePool |-> scoreRelevance(q, t)]

Score(searchQuery, product) == scoreTable[searchQuery, product.title]

\* A test that only asks for a price
PriceRejected_NoFloor(product) == ~Truthy(product.price)

\* The test of RULE 2 and of normalizeResults: `!x.price || x.price < 100`
PriceRejected(product) == ~Truthy(product.price) \/ product.price < MinPrice

filterAndRankProducts(products, searchQuery, maxResults) ==
  IF products = <<>> THEN <<>>
  ELSE LET kept == SelectSeq(products, LAMBDA p : Score(searchQuery, p) > 0)
           ranked == StableSort(kept,
                       LAMBDA a, b : Score(searchQuery, a) > Score(searchQuery, b))
       IN  Slice0(ranked, maxResults)

\* compareProducts(a, b) < 0
compareProducts(a, b) ==
  LET availA == IF a.availability THEN 0 ELSE 1
      availB == IF b.availability THEN 0 ELSE 1
  IN  IF a.price # b.price THEN a.price < b.price
      ELSE IF availA # availB THEN availA < availB
      ELSE sourcePriority(a.platform) < sourcePriority(b.platform)

\* RULE 5 left out
PlatformFinal_NoCap(rawResults, searchQuery, maxResults) ==
  filterAndRankProducts(
    deduplicateByWebsite(SelectSeq(rawResults, LAMBDA p : ~PriceRejected(p))),
    searchQuery, maxResults)

\* The body of applyRelevanceFilter's forEach for a platform on the allow-list
PlatformFinal(rawResults, searchQuery, maxResults) ==
  LET priced == SelectSeq(rawResults, LAMBDA p : ~PriceRejected(p))
      deduplicated == deduplicateByWebsite(priced)
      filtered == filterAndRankProducts(deduplicated, searchQuery, maxResults)
  IN  Slice0(filtered, TopPerWebsite)

\* A tracker that keeps the first priced product it sees
RECURSIVE TrackLowest_First(_, _)
TrackLowest_First(lowest, products) ==
  IF products = <<>> THEN lowest
  ELSE TrackLowest_First(IF Truthy(Head(products).price) /\ lowest = <<>>
                           THEN <<Head(products)>> ELSE lowest,
                         Tail(products))

\* "Track lowest price across all platforms": lowest is <<>> for null
RECURSIVE TrackLowest(_, _)
TrackLowest(lowest, products) ==
  IF products = <<>> THEN lowest
  ELSE LET product == Head(products)
           next == IF Truthy(product.price)
                        /\ (lowest = <<>> \/ product.price < lowest[1].price)
                     THEN <<product>> ELSE lowest
       IN  TrackLowest(next, Tail(products))

\* A filter that replaces the lists and trusts the registry's counts
FilterPlatform_StaleCount(st, platform, searchQuery, maxResults) ==
  LET platformData == st.platforms[platform]
      Keep(finalResults) ==
        [st EXCEPT
           !.platforms =
             [st.platforms EXCEPT ![platform] =
                [success |-> platformData.success,
                 checked |-> platformData.checked,
                 count |-> platformData.count,
                 results |-> finalResults,
                 error |-> platformData.error,
                 durationMs |-> platformData.durationMs,
                 rejectedCount |-> 0]],
           !.lowestPrice = TrackLowest(st.lowestPrice, finalResults),
           !.totalResults = st.totalResults + platformData.count]
  IN  Keep(PlatformFinal(platformData.results, searchQuery, maxResults))

\* One iteration of applyRelevanceFilter's forEach over Object.keys(platforms);
\* st carries the platforms object (its keys in insertion order) and the
\* running totalResults and lowestPrice
FilterPlatform(st, platform, searchQuery, maxResults) ==
  IF platform \notin allowedWebsites
    THEN [st EXCEPT !.keys = SelectSeq(st.keys, LAMBDA k : k # platform),
                    !.platforms = [k \in DOMAIN st.platforms \ {platform} |->
                                     st.platforms[k]]]
    ELSE LET platformData == st.platforms[platform]
             rawCount == Len(platformData.results)
             Keep(finalResults) ==
               [st EXCEPT
                  !.platforms =
                    [st.platforms EXCEPT ![platform] =
                       [success |-> platformData.success,
                        checked |-> platformData.checked,
                        count |-> Len(finalResults),
                        results |-> finalResults,
                        error |-> platformData.error,
                        durationMs |-> platformData.durationMs,
                        rejectedCount |-> rawCount - Len(finalResults)]],
                  !.lowestPrice = TrackLowest(st.lowestPrice, finalResults),
                  !.totalResults = st.totalResults + Len(finalResults)]
         IN  Keep(PlatformFinal(platformData.results, searchQuery, maxResults))

RECURSIVE FilterLoop(_, _, _, _)
FilterLoop(st, keys, searchQuery, maxResults) ==
  IF keys = <<>> THEN st
  ELSE FilterLoop(FilterPlatform(st, Head(keys), searchQuery, maxResults),
                  Tail(keys), searchQuery, maxResults)

applyRelevanceFilter(aggregatedResults, searchQuery, maxResults) ==
  LET Into(st) == [aggregatedResults EXCEPT !.keys = st.keys,
                                            !.platforms = st.platforms,
                                            !.totalResults = st.totalResults,
                                            !.lowestPrice = st.lowestPrice]
  IN  Into(FilterLoop([keys |-> aggregatedResults.keys,
                       platforms |-> aggregatedResults.platforms,
                       totalResults |-> 0,
                       lowestPrice |-> <<>>],
                      aggregatedResults.keys, searchQuery, maxResults))

applySorting(aggregatedResults) ==
  LET sortedOf(k) == StableSort(aggregatedResults.platforms[k].results, compareProducts)
      platforms == [k \in DOMAIN aggregatedResults.platforms |->
                      [aggregatedResults.platforms[k] EXCEPT !.results = sortedOf(k)]]
      allProducts == Flatten([i \in DOMAIN aggregatedResults.keys |->
                                platforms[aggregatedResults.keys[i]].results])
  IN  [keys |-> aggregatedResults.keys,
       platforms |-> platforms,
       totalResults |-> aggregatedResults.totalResults,
       lowestPrice |-> aggregatedResults.lowestPrice,
       sortedAllProducts |-> StableSort(allProducts, compareProducts)]

(***************************************************************************)
(* ScraperRegistry.searchAll.                                              *)
(***************************************************************************)
\* this.scrapers, in registration order (initializeScrapers)
Platforms == <<"amazon", "flipkart", "myntra">>

PlatformSet == Range(Platforms)

\* The promise of one element of searchPromises once platform's search has
\* resolved with results or thrown message: the try/catch of the async
\* callback turns both into a fulfilled value.  error is <<>> for null.
\* A callback without the catch: the search's throw rejects the promise
WrapperSettles_NoCatch(platform, threw, results, message, durationMs) ==
  IF threw
    THEN [state |-> "rejected", value |-> <<>>]
    ELSE [state |-> "fulfilled",
          value |-> [platform |-> platform, results |-> results, success |-> TRUE,
                     error |-> <<>>, durationMs |-> durationMs, checked |-> TRUE]]

WrapperSettles(platform, threw, results, message, durationMs) ==
  [state |-> "fulfilled",
   value |-> IF threw
               THEN [platform |-> platform, results |-> <<>>, success |-> FALSE,
                     error |-> <<message>>, durationMs |-> durationMs,
                     checked |-> TRUE]
               ELSE [platform |-> platform, results |-> results, success |-> TRUE,
                     error |-> <<>>, durationMs |-> durationMs,
                     checked |-> TRUE]]

\* A first-to-complete join
JoinResolves_Any(promiseStates) ==
  \E p \in PlatformSet : promiseStates[p] \in {"fulfilled", "rejected"}

\* Promise.allSettled(searchPromises) resolves
JoinResolves(promiseStates) ==
  \A p \in PlatformSet : promiseStates[p] \in {"fulfilled", "rejected"}

\* allResults.forEach: one settled promise folded into aggregated
AggregateOne(aggregated, settledState, value) ==
  IF settledState = "fulfilled"
    THEN [keys |-> IF value.platform \in Range(aggregated.keys)
                     THEN aggregated.keys
                     ELSE Append(aggregated.keys, value.platform),
          platforms |->
            [k \in DOMAIN aggregated.platforms \cup {value.platform} |->
               IF k = value.platform
                 THEN [success |-> value.success,
                       checked |-> value.checked,
                       count |-> Len(value.results),
                       results |-> value.results,
                       error |-> value.error,
                       durationMs |-> value.durationMs]
                 ELSE aggregated.platforms[k]],
          totalResults |-> aggregated.totalResults + Len(value.results),
          lowestPrice |-> TrackLowest(aggregated.lowestPrice, value.results)]
    ELSE aggregated

\* A forEach that gives up at the first source that failed
RECURSIVE AggregateLoop_StopAtFailure(_, _)
AggregateLoop_StopAtFailure(aggregated, allResults) ==
  IF allResults = <<>> THEN aggregated
  ELSE IF Head(allResults).state = "fulfilled" /\ ~Head(allResults).value.success
         THEN aggregated
  ELSE AggregateLoop_StopAtFailure(
         AggregateOne(aggregated, Head(allResults).state, Head(allResults).value),
         Tail(allResults))

RECURSIVE AggregateLoop(_, _)
AggregateLoop(aggregated, allResults) ==
  IF allResults = <<>> THEN aggregated
  ELSE AggregateLoop(AggregateOne(aggregated, Head(allResults).state,
                                  Head(allResults).value),
                     Tail(allResults))

\* `const aggregated = {...}` before the forEach
NewAggregated ==
  [keys |-> <<>>, platforms |-> <<>>, totalResults |-> 0, lowestPrice |-> <<>>]

\* A join that hands over the promises in the order they settled
BuildAggregated_ByCompletion(promiseStates, values) ==
  LET done == {p \in PlatformSet : promiseStates[p] = "fulfilled"}
      Rank(p) == Cardinality({r \in done : values[r].durationMs <= values[p].durationMs})
  IN  AggregateLoop(NewAggregated,
                    [k \in 1..Cardinality(done) |->
                       LET p == CHOOSE r \in done : Rank(r) = k
                       IN  [state |-> promiseStates[p], value |-> values[p]]])

\* allResults is in the order of searchPromises, that is of Platforms
BuildAggregated(promiseStates, values) ==
  AggregateLoop(NewAggregated,
                [i \in DOMAIN Platforms |->
                   [state |-> promiseStates[Platforms[i]],
                    value |-> values[Platforms[i]]]])

(***************************************************************************)
(* BaseScraper: what every scraper's search returns.                       *)
(***************************************************************************)
\* A product as a scraper's parser builds it
RawProduct(title, price, availability) ==
  [title |-> title, price |-> price, availability |-> availability]

\* The titles on the pages of the model; one carries the page's white space
RawTitlePool == TitlePool \cup {"  Apple iPhone 15  (128GB) Black "}

\* title.trim().replace(/\s+/g, ' ').substring(0, 500)
cleanTitle(title) ==
  LET Substring0(s, n) == IF Len(s) > n THEN SubSeq(s, 1, n) ELSE s
  IN  IF title = "" THEN "" ELSE Substring0(CollapseSpaces(Trim(title)), 500)

\* cleanTitle over the titles of the model, computed once
cleanTable == [t \in RawTitlePool |-> cleanTitle(t)]

normalizeResults(results, platformName) ==
  LET valid == SelectSeq(results, LAMBDA result : ~PriceRejected(result))
  IN  [i \in DOMAIN valid |->
         [platform |-> platformName,
          title |-> cleanTable[valid[i].title],
          price |-> valid[i].price,
          availability |-> valid[i].availability # "out_of_stock"]]

\* The messages of the errors a scraper's search throws
ErrorMessage(platform) ==
  CASE platform = "amazon"   -> "Amazon search failed: could not fetch search page"
    [] platform = "flipkart" -> "Flipkart search failed: could not fetch search page"
    [] platform = "myntra"   -> "Myntra search failed: could not fetch search page"

BlockedMessage(platform) ==
  CASE platform = "flipkart" -> "Flipkart returned empty/blocked response"
    [] platform = "myntra"   -> "Myntra returned empty/blocked response"

(***************************************************************************)
(* What the parsers may find on the pages.                                 *)
(***************************************************************************)
\* Scenario "cross": every source's page lists some of these products
CrossCandidates ==
  { RawProduct("Apple iPhone 15 (128GB) Blue", 300, "available"),
    RawProduct("Apple iPhone 15 (Black, 128 GB)", 200, "out_of_stock"),
    RawProduct("  Apple iPhone 15  (128GB) Black ", 100, "available"),
    RawProduct("Apple iPhone 15 (128GB) Black", 99, "available") }

\* Scenario "deep": one source's page is a long list of distinct variants,
\* an accessory among them
DeepCatalogue ==
  << RawProduct("Apple iPhone 15 (Black, 128 GB)", 800, "available"),
     RawProduct("Apple iPhone 15 (Blue, 128 GB)", 700, "available"),
     RawProduct("iPhone 15 Pro Max Silicone Case", 150, "available"),
     RawProduct("Apple iPhone 15 (Black, 256 GB)", 600, "out_of_stock"),
     RawProduct("Apple iPhone 15 (Blue, 256 GB)", 500, "available"),
     RawProduct("Apple iPhone 15 (Black, 512 GB)", 400, "available"),
     RawProduct("Apple iPhone 15 (Blue, 512 GB)", 300, "available"),
     RawProduct("Apple iPhone 15 (Black, 1 TB)", 200, "available") >>

\* total number of parsed products over the three sources, scenario "cross"
MaxTotalRaw == 3

\* length of the long list, scenario "deep"
MaxDeepRaw == 6

\* the caller's limit: parseInt(limit) of the route
LimitPool(sc) == IF sc = "deep" THEN {0, 1, 10} ELSE {1, 10}

SeqsUpTo(S, n) == UNION {[1..k -> S] : k \in 0..n}

CrossLists == SeqsUpTo(CrossCandidates, MaxTotalRaw)

\* the entries of s at the indices in I, in the order of s
RECURSIVE Pick(_, _)
Pick(s, I) ==
  IF I = {} THEN <<>>
  ELSE LET i == CHOOSE a \in I : \A b \in I : a <= b
       IN  <<s[i]>> \o Pick(s, I \ {i})

\* the sub-lists of the catalogue of at most MaxDeepRaw entries
DeepLists ==
  {Pick(DeepCatalogue, I) :
     I \in {J \in SUBSET DOMAIN DeepCatalogue : Cardinality(J) <= MaxDeepRaw}}

(***************************************************************************)
(* State: one call of SearchService.searchAll, one call of a scraper's     *)
(* search or of its smartFetch, the shared browser with the calls of       *)
(* fetchWithBrowser, and one call of a function of the price and title     *)
(* handling.                                                               *)
(***************************************************************************)
VARIABLES
  scenario,     \* "cross", "deep": what the pages list; "scrape": no searchAll
  deepPlatform, \* scenario "deep": the source whose page is the long list
  query,        \* searchQuery
  maxResults,   \* the caller's limit
  pc,           \* "map", "await", "service", "done"; "idle": no searchAll
  started,      \* how many elements of platforms the map callback has run for
  promise,      \* searchPromises: platform -> "none", "pending", "fulfilled", "rejected"
  parsed,       \* platform -> what its parser found (before normalizeResults)
  settled,      \* platform -> the value its promise was fulfilled with (<<>> before)
  aggregated,   \* <<>>, then <<the aggregated object>>
  status,       \* SearchService.searchAll: "pending", "returned", "threw"
  scraper,      \* the scraper whose search or smartFetch runs; "none": neither
  sPc,          \* "browser", "axios", "backoff", "delay", "done"; "idle"
  attempt,      \* AmazonScraper.search's loop counter
  html,         \* <<>> for undefined, else <<the length of the string>>
  fetchLog,     \* the fetches of this search so far, "ok" or "failed" each
  outcome,      \* <<>>, then <<what search or smartFetch returned or threw>>
  retries,      \* makeRequest's maxRetries: options.maxRetries ?? this.maxRetries
  reqAttempt,   \* makeRequest's loop counter; 0 outside makeRequest
  tries,        \* every transport attempt so far: axios(config), fetchWithBrowser
  waits,        \* the waitMs of every delay makeRequest has taken
  sharedBrowser,        \* _sharedBrowser: 0 for null, else the browser
  browserLaunchPromise, \* _browserLaunchPromise: 0 for null, else the launch
  launches,     \* the promise of every launch: "pending", "fulfilled", "rejected"
  connected,    \* the browsers whose `connected` is true
  open,         \* the contexts and pages that are open in a browser
  calls,        \* caller -> its call of fetchWithBrowser
  callee,       \* the function of the call followed; "none": no call
  args,         \* its arguments
  returned,     \* <<>>, then <<what it returned>>
  productsTable, \* the rows of the table products
  tracking,     \* caller -> its call of TrackingService.trackProduct
  untracks,     \* how many calls of untrackProduct have run
  jobs,         \* SchedulerService.jobs: name -> its task, 0 when it has none
  isRunning,    \* SchedulerService.isRunning
  tasks         \* every task cron.schedule has created: its name, running or not

pipeVars == <<scenario, deepPlatform, query, maxResults, pc, started, promise, parsed,
              settled, aggregated, status>>

scrapeVars == <<scraper, sPc, attempt, html, fetchLog, outcome, retries, reqAttempt,
                tries, waits>>

callVars == <<callee, args, returned>>

browserVars == <<sharedBrowser, browserLaunchPromise, launches, connected, open, calls>>

serviceVars == <<productsTable, tracking, untracks, jobs, isRunning, tasks>>

otherVars == <<callVars, browserVars, serviceVars>>

vars == <<pipeVars, scrapeVars, serviceVars, otherVars>>

\* The names a job is scheduled under
JobNames == {"priceUpdate", "cacheCleanup", "report"}

\* The calls of trackProduct that run side by side
MaxTrackers == 2

Trackers == 1 .. MaxTrackers

\* A call of trackProduct: its position, `product`, and what it returned
NewTrack(pos) == [pc |-> pos, product |-> <<>>, result |-> <<>>]

\* No call of the tracking service, a scheduler just constructed
ServiceIdle ==
  /\ productsTable = {}
  /\ tracking = [c \in Trackers |-> NewTrack("idle")]
  /\ untracks = 0
  /\ jobs = [n \in JobNames |-> 0]
  /\ isRunning = FALSE
  /\ tasks = <<>>

\* No search of a scraper is followed
ScrapeIdle ==
  /\ scraper = "none"
  /\ sPc = "idle"
  /\ attempt = 1
  /\ html = <<>>
  /\ fetchLog = <<>>
  /\ outcome = <<>>
  /\ retries = 0
  /\ reqAttempt = 0
  /\ tries = <<>>
  /\ waits = <<>>

\* No call of a function is followed
CallIdle ==
  /\ callee = "none"
  /\ args = <<>>
  /\ returned = <<>>

\* The calls of fetchWithBrowser that run side by side
MaxCallers == 3

Callers == 1 .. MaxCallers

\* A call of fetchWithBrowser: its position, the launch whose promise its
\* getBrowser awaits, the launch that was in flight when it arrived, the
\* browser getBrowser gave it, its `context` and `page` (non-null or not),
\* what it has opened, and whether a step of its try threw
NewCall(pos) ==
  [pc |-> pos, awaits |-> 0, during |-> 0, browser |-> 0, context |-> FALSE,
   page |-> FALSE, opened |-> {}, failed |-> FALSE]

\* No browser, no call of fetchWithBrowser
BrowserIdle ==
  /\ sharedBrowser = 0
  /\ browserLaunchPromise = 0
  /\ launches = <<>>
  /\ connected = {}
  /\ open = {}
  /\ calls = [c \in Callers |-> NewCall("idle")]

\* No searchAll is followed
PipeIdle(sc) ==
  /\ scenario = sc
  /\ deepPlatform = Platforms[1]
  /\ query \in QueryPool
  /\ maxResults = 10
  /\ pc = "idle"
  /\ started = 0
  /\ promise = [p \in PlatformSet |-> "none"]
  /\ parsed = [p \in PlatformSet |-> <<>>]
  /\ settled = [p \in PlatformSet |-> <<>>]
  /\ aggregated = <<>>
  /\ status = "pending"

PipeInit(sc) ==
  /\ scenario = sc
  /\ deepPlatform \in (IF sc = "deep" THEN PlatformSet ELSE {Platforms[1]})
  /\ query \in QueryPool
  /\ maxResults \in LimitPool(sc)
  /\ pc = "map"
  /\ started = 0
  /\ promise = [p \in PlatformSet |-> "none"]
  /\ parsed = [p \in PlatformSet |-> <<>>]
  /\ settled = [p \in PlatformSet |-> <<>>]
  /\ aggregated = <<>>
  /\ status = "pending"
  /\ ScrapeIdle
  /\ ServiceIdle
  /\ CallIdle
  /\ BrowserIdle

\* platforms.map(async (platform) => ...): the callback runs for the next
\* platform up to its first await, which starts that scraper's search
StartSearch ==
  /\ pc = "map"
  /\ started < Len(Platforms)
  /\ promise' = [promise EXCEPT ![Platforms[started + 1]] = "pending"]
  /\ started' = started + 1
  /\ pc' = IF started + 1 = Len(Platforms) THEN "await" ELSE "map"
  /\ UNCHANGED <<scenario, deepPlatform, query, maxResults, parsed, settled,
                 aggregated, status, scrapeVars, otherVars>>

RawUsed == Len(parsed["amazon"]) + Len(parsed["flipkart"]) + Len(parsed["myntra"])

\* What platform's search may end with: the list its parser found, which it
\* returns through normalizeResults, or a throw
Outcomes(platform) ==
  IF scenario = "deep"
    THEN IF platform = deepPlatform
           THEN {[threw |-> FALSE, list |-> l] : l \in DeepLists}
           ELSE {[threw |-> FALSE, list |-> <<>>]}
    ELSE {[threw |-> FALSE, list |-> l] :
            l \in {c \in CrossLists : Len(c) + RawUsed <= MaxTotalRaw}}
         \cup {[threw |-> TRUE, list |-> <<>>]}

\* Date.now() - start when a callback resumes: every start is taken in the
\* same synchronous run of the map, and the clock ticks between two searches
\* that settle
Elapsed == 1 + Cardinality({p \in PlatformSet : promise[p] \notin {"none", "pending"}})

\* The callback of searchPromises resumes after `await this.searchPlatform`,
\* in its try or in its catch.  A continuation runs only once the
\* synchronous part of searchAll (the whole map) has run to its await.
SearchSettles(platform) ==
  /\ pc = "await"
  /\ promise[platform] = "pending"
  /\ \E o \in Outcomes(platform) :
       LET w == WrapperSettles(platform, o.threw,
                               normalizeResults(o.list, platform),
                               ErrorMessage(platform), Elapsed)
       IN  /\ promise' = [promise EXCEPT ![platform] = w.state]
           /\ parsed' = [parsed EXCEPT ![platform] = o.list]
           /\ settled' = [settled EXCEPT ![platform] = w.value]
  /\ UNCHANGED <<scenario, deepPlatform, query, maxResults, pc, started,
                 aggregated, status, scrapeVars, otherVars>>

\* ScraperRegistry.searchAll after its await: builds aggregated and returns
RegistryAggregate ==
  /\ pc = "await"
  /\ JoinResolves(promise)
  /\ aggregated' = <<BuildAggregated(promise, settled)>>
  /\ pc' = "service"
  /\ UNCHANGED <<scenario, deepPlatform, query, maxResults, started, promise,
                 parsed, settled, status, scrapeVars, otherVars>>

\* SearchService.searchAll after its await: filter, sort, return
ServiceFinish ==
  /\ pc = "service"
  /\ aggregated' = <<applySorting(applyRelevanceFilter(aggregated[1], query, maxResults))>>
  /\ status' = "returned"
  /\ pc' = "done"
  /\ UNCHANGED <<scenario, deepPlatform, query, maxResults, started, promise,
                 parsed, settled, scrapeVars, otherVars>>

PipeNext ==
  \/ StartSearch
  \/ \E p \in PlatformSet : SearchSettles(p)
  \/ RegistryAggregate
  \/ ServiceFinish

(***************************************************************************)
(* A scraper's search: AmazonScraper, FlipkartScraper, MyntraScraper.      *)
(***************************************************************************)
\* AmazonScraper.search's attempts
maxAttempts == 3

\* The length under which a scraper takes a page for a bot block
MinHtmlLength(platform) ==
  CASE platform = "amazon"   -> 5000
    [] platform = "flipkart" -> 1000
    [] platform = "myntra"   -> 500

\* The lengths of the pages a fetch may resolve with
HtmlPool == {0, 400, 800, 3000, 6000}

\* What the parsers may find on a page that passed the length test
ParsedPool ==
  { <<>>,
    <<RawProduct("Apple iPhone 15 (128GB) Blue", 300, "available")>>,
    <<RawProduct("Apple iPhone 15 (128GB) Black", 99, "available")>> }

\* !html || html.length < n
TooSmall(h, n) == h = <<>> \/ h[1] = 0 \/ h[1] < n

Threw(message) == [threw |-> TRUE, results |-> <<>>, message |-> message]

\* this.maxRetries when MAX_RETRIES is not set
defaultMaxRetries == 3

\* The maxRetries every search passes to makeRequest
searchMaxRetries == 2

\* The largest options.maxRetries a caller of smartFetch passes
MaxRetriesOption == 4

\* The values of options.maxRetries ?? this.maxRetries
RetriesPool == 0 .. MaxRetriesOption

\* The messages of the errors axios and the browser may throw
LightErrors == {"timeout of 15000ms exceeded", "Request failed with status code 503"}

HeavyErrors == {"Navigation timeout of 30000 ms exceeded"}

\* One attempt of a transport; error is "" when it succeeded
Try(transport, error) == [transport |-> transport, error |-> error]

\* makeRequest's loop after attempt att failed: `attempt < maxRetries` guards
\* the delay, and after attempt++ `attempt <= maxRetries` the next round
RetryLight_OneMore(att, maxRetries) == att <= maxRetries

RetryLight(att, maxRetries) == att < maxRetries

\* A delay that grows by one second with every attempt
waitMs_Linear(att) == 1000 * att

\* 1000 * Math.pow(2, attempt - 1)
waitMs(att) == 1000 * 2 ^ (att - 1)

\* The message of the error makeRequest throws after its loop
makeRequestMessage(platformName, maxRetries, lastMessage) ==
  "Failed to fetch from " \o platformName \o " after " \o ToString(maxRetries)
    \o " attempts: " \o lastMessage

\* `lastError.message` when the loop ran no round
UndefinedMessage == "Cannot read properties of undefined (reading 'message')"

\* The message of the error smartFetch throws
smartFetchMessage(platformName, axiosMessage, puppeteerMessage) ==
  "All fetch methods failed for " \o platformName \o ": axios(" \o axiosMessage
    \o "), puppeteer(" \o puppeteerMessage \o ")"

Returned(results) == [threw |-> FALSE, results |-> results, message |-> ""]

ScrapeInit ==
  /\ PipeIdle("scrape")
  /\ CallIdle
  /\ ServiceIdle
  /\ BrowserIdle
  /\ scraper \in PlatformSet
  /\ sPc = "browser"
  /\ attempt = 1
  /\ html = <<>>
  /\ fetchLog = <<>>
  /\ outcome = <<>>
  /\ retries = searchMaxRetries
  /\ reqAttempt = 0
  /\ tries = <<>>
  /\ waits = <<>>

\* search from the point where html holds h, the fetches of this attempt
\* being over, up to its next await, its return or its throw
AfterFetch(h, log) ==
  /\ html' = h
  /\ fetchLog' = log
  /\ IF scraper = "amazon"
       THEN IF h # <<>> /\ h[1] # 0 /\ h[1] < MinHtmlLength(scraper)
                 /\ attempt < maxAttempts
              THEN \* bot block, attempts left: await this.delay(...); continue
                   /\ sPc' = "delay"
                   /\ UNCHANGED <<attempt, outcome>>
              ELSE \* the loop ends: its last attempt, or `break`
                   /\ sPc' = "done"
                   /\ UNCHANGED attempt
                   /\ IF TooSmall(h, MinHtmlLength(scraper))
                        THEN outcome' = <<Returned(<<>>)>>
                        ELSE \E l \in ParsedPool :
                               outcome' = <<Returned(normalizeResults(l, scraper))>>
       ELSE /\ sPc' = "done"
            /\ UNCHANGED attempt
            /\ IF TooSmall(h, MinHtmlLength(scraper))
                 THEN outcome' = <<Threw(BlockedMessage(scraper))>>
                 ELSE \E l \in ParsedPool :
                        outcome' = <<Returned(normalizeResults(l, scraper))>>

\* `html = await this.fetchWithBrowser(searchUrl, ...)` resolves or throws;
\* the catch of its failure calls makeRequest, which runs up to its axios
FetchWithBrowser ==
  /\ scenario = "scrape"
  /\ sPc = "browser"
  /\ \/ /\ \E h \in HtmlPool : AfterFetch(<<h>>, Append(fetchLog, "ok"))
        /\ tries' = Append(tries, Try("heavy", ""))
        /\ UNCHANGED reqAttempt
     \/ /\ \E e \in HeavyErrors : tries' = Append(tries, Try("heavy", e))
        /\ sPc' = "axios"
        /\ reqAttempt' = 1
        /\ fetchLog' = Append(fetchLog, "failed")
        /\ UNCHANGED <<attempt, html, outcome>>
  /\ UNCHANGED <<pipeVars, otherVars, scraper, retries, waits>>

\* `await axios(config)` of the makeRequest that search called resolves or
\* throws.  makeRequest returns the page, or delays and goes round its loop,
\* or throws after its last attempt; search goes on from there.
MakeRequest ==
  /\ scenario = "scrape"
  /\ sPc = "axios"
  /\ \/ /\ \E h \in HtmlPool : AfterFetch(<<h>>, Append(fetchLog, "ok"))
        /\ tries' = Append(tries, Try("light", ""))
        /\ reqAttempt' = 0
        /\ UNCHANGED waits
     \/ /\ \E e \in LightErrors : tries' = Append(tries, Try("light", e))
        /\ IF RetryLight(reqAttempt, retries)
             THEN /\ sPc' = "backoff"
                  /\ waits' = Append(waits, waitMs(reqAttempt))
                  /\ UNCHANGED <<reqAttempt, attempt, html, fetchLog, outcome>>
             ELSE /\ reqAttempt' = 0
                  /\ UNCHANGED waits
                  /\ IF scraper = "amazon" /\ attempt < maxAttempts
                       THEN \* the catch swallows the error; html keeps its value
                            AfterFetch(html, Append(fetchLog, "failed"))
                       ELSE /\ sPc' = "done"
                            /\ outcome' = <<Threw(ErrorMessage(scraper))>>
                            /\ fetchLog' = Append(fetchLog, "failed")
                            /\ UNCHANGED <<attempt, html>>
  /\ UNCHANGED <<pipeVars, otherVars, scraper, retries>>

\* makeRequest's `await this.delay(waitMs)` is over: attempt++, the loop's
\* test, and the next axios(config) is awaited
Backoff ==
  /\ sPc = "backoff"
  /\ reqAttempt' = reqAttempt + 1
  /\ sPc' = "axios"
  /\ UNCHANGED <<pipeVars, otherVars, scraper, attempt, html, fetchLog, outcome,
                 retries, tries, waits>>

\* `await this.delay(...)` is over; `continue` runs attempt++ and the test
Delay ==
  /\ sPc = "delay"
  /\ attempt' = attempt + 1
  /\ sPc' = "browser"
  /\ UNCHANGED <<pipeVars, otherVars, scraper, html, fetchLog, outcome, retries,
                 reqAttempt, tries, waits>>

\* What the registry's callback makes of the search's outcome
Reported ==
  WrapperSettles(scraper, outcome[1].threw, outcome[1].results,
                 outcome[1].message, 1).value

ScrapeNext ==
  \/ FetchWithBrowser
  \/ MakeRequest
  \/ Backoff
  \/ Delay

(***************************************************************************)
(* BaseScraper.smartFetch: makeRequest, then fetchWithBrowser.             *)
(***************************************************************************)
\* smartFetch(url, options) up to its first await: makeRequest runs up to
\* its first axios; when its loop runs no round, `lastError.message` throws
\* and the catch of smartFetch calls fetchWithBrowser
FetchInit ==
  /\ PipeIdle("fetch")
  /\ CallIdle
  /\ ServiceIdle
  /\ BrowserIdle
  /\ scraper \in PlatformSet
  /\ retries \in RetriesPool
  /\ sPc = (IF 1 <= retries THEN "axios" ELSE "browser")
  /\ reqAttempt = (IF 1 <= retries THEN 1 ELSE 0)
  /\ attempt = 1
  /\ html = <<>>
  /\ fetchLog = <<>>
  /\ outcome = <<>>
  /\ tries = <<>>
  /\ waits = <<>>

\* axiosError.message in the catch of smartFetch
axiosErrorMessage ==
  LET Last(light) == IF light = <<>> THEN UndefinedMessage
                     ELSE makeRequestMessage(scraper, retries, light[Len(light)].error)
  IN  Last(SelectSeq(tries, LAMBDA t : t.transport = "light"))

\* `await axios(config)` of the makeRequest that smartFetch called resolves
\* or throws.  smartFetch returns the page it resolved with; when
\* makeRequest throws, the catch calls fetchWithBrowser.
SmartFetchAxios ==
  /\ scenario = "fetch"
  /\ sPc = "axios"
  /\ \/ /\ \E h \in HtmlPool : html' = <<h>>
        /\ tries' = Append(tries, Try("light", ""))
        /\ reqAttempt' = 0
        /\ sPc' = "done"
        /\ outcome' = <<Returned(<<>>)>>
        /\ UNCHANGED waits
     \/ /\ \E e \in LightErrors : tries' = Append(tries, Try("light", e))
        /\ IF RetryLight(reqAttempt, retries)
             THEN /\ sPc' = "backoff"
                  /\ waits' = Append(waits, waitMs(reqAttempt))
                  /\ UNCHANGED reqAttempt
             ELSE /\ sPc' = "browser"
                  /\ reqAttempt' = 0
                  /\ UNCHANGED waits
        /\ UNCHANGED <<html, outcome>>
  /\ UNCHANGED <<pipeVars, otherVars, scraper, attempt, fetchLog, retries>>

\* `await this.fetchWithBrowser(url, options)` in the catch of smartFetch
\* resolves or throws
SmartFetchBrowser ==
  /\ scenario = "fetch"
  /\ sPc = "browser"
  /\ \/ /\ \E h \in HtmlPool : html' = <<h>>
        /\ tries' = Append(tries, Try("heavy", ""))
        /\ outcome' = <<Returned(<<>>)>>
     \/ /\ \E e \in HeavyErrors :
             /\ tries' = Append(tries, Try("heavy", e))
             /\ outcome' = <<Threw(smartFetchMessage(scraper, axiosErrorMessage, e))>>
        /\ UNCHANGED html
  /\ sPc' = "done"
  /\ UNCHANGED <<pipeVars, otherVars, scraper, attempt, fetchLog, retries,
                 reqAttempt, waits>>

FetchNext ==
  \/ SmartFetchAxios
  \/ Backoff
  \/ SmartFetchBrowser

Init == PipeInit("cross")

Next == PipeNext

Spec == Init /\ [][Next]_vars

InitDeep == PipeInit("deep")

SpecDeep == InitDeep /\ [][Next]_vars

InitScrape == ScrapeInit

SpecScrape == InitScrape /\ [][ScrapeNext]_vars

(***************************************************************************)
(* BaseScraper.getBrowser and fetchWithBrowser: the shared browser, and    *)
(* the context and page of every call.  The browser of launch k is k.      *)
(***************************************************************************)
BrowserInit ==
  /\ PipeIdle("browser")
  /\ ScrapeIdle
  /\ ServiceIdle
  /\ CallIdle
  /\ sharedBrowser = 0
  /\ browserLaunchPromise = 0
  /\ launches = <<>>
  /\ connected = {}
  /\ open = {}
  /\ calls = [c \in Callers |-> NewCall("start")]

\* The launches whose promise is pending
InFlight == {k \in DOMAIN launches : launches[k] = "pending"}

\* A getBrowser that never takes the shared browser
SharedUsable_Never == FALSE

\* if (_sharedBrowser && _sharedBrowser.connected)
SharedUsable == sharedBrowser # 0 /\ sharedBrowser \in connected

\* if (_browserLaunchPromise)
LaunchPromiseSet_Never(launchPromise) == FALSE

LaunchPromiseSet(launchPromise) == launchPromise # 0

\* A continuation of a settled promise is waiting for its turn
ContinuationPending ==
  \E c \in Callers : /\ calls[c].pc \in {"launching", "joined"}
                      /\ launches[calls[c].awaits] # "pending"

\* fetchWithBrowser up to getBrowser's return or await: the shared browser,
\* the promise of the launch in flight, or a launch of its own.  The calls
\* are numbered in the order they are made.
GetBrowser(c) ==
  /\ calls[c].pc = "start"
  /\ \A d \in Callers : d < c => calls[d].pc # "start"
  /\ LET Arrived(k) == [calls[c] EXCEPT !.during = k]
         During == IF InFlight = {} THEN 0 ELSE CHOOSE k \in InFlight : TRUE
     IN  IF SharedUsable
           THEN /\ calls' = [calls EXCEPT ![c] = [Arrived(During) EXCEPT
                                !.pc = "context", !.browser = sharedBrowser]]
                /\ UNCHANGED <<browserLaunchPromise, launches>>
           ELSE IF LaunchPromiseSet(browserLaunchPromise)
             THEN /\ calls' = [calls EXCEPT ![c] = [Arrived(During) EXCEPT
                                  !.pc = "joined", !.awaits = browserLaunchPromise]]
                  /\ UNCHANGED <<browserLaunchPromise, launches>>
             ELSE /\ launches' = Append(launches, "pending")
                  /\ browserLaunchPromise' = Len(launches) + 1
                  /\ calls' = [calls EXCEPT ![c] = [Arrived(During) EXCEPT
                                  !.pc = "launching", !.awaits = Len(launches) + 1]]
  /\ UNCHANGED <<pipeVars, scrapeVars, serviceVars, callVars, sharedBrowser, connected, open>>

\* puppeteer.launch settles and the launching function resumes: it sets
\* _sharedBrowser, registers the 'disconnected' handler and returns, or it
\* throws
LaunchSettles(k) ==
  /\ k \in InFlight
  /\ \/ /\ launches' = [launches EXCEPT ![k] = "fulfilled"]
        /\ sharedBrowser' = k
        /\ connected' = connected \cup {k}
     \/ /\ launches' = [launches EXCEPT ![k] = "rejected"]
        /\ UNCHANGED <<sharedBrowser, connected>>
  /\ UNCHANGED <<pipeVars, scrapeVars, serviceVars, callVars, browserLaunchPromise, open, calls>>

\* The step of fetchWithBrowser's finally that comes next when `page` and
\* `context` hold what they hold: page.close(), context.close(), or the end
FinallyFrom_PageOnly(page, context, failed) ==
  IF page THEN "closePage"
  ELSE IF failed THEN "threw" ELSE "returned"

FinallyFrom(page, context, failed) ==
  IF page THEN "closePage"
  ELSE IF context THEN "closeContext"
  ELSE IF failed THEN "threw" ELSE "returned"

\* A step of fetchWithBrowser's try threw: catch rethrows, finally runs
Throw(c) ==
  [calls[c] EXCEPT !.failed = TRUE,
                   !.pc = FinallyFrom(calls[c].page, calls[c].context, TRUE)]

\* getBrowser resumes after `await _browserLaunchPromise`, or the promise
\* getBrowser returned settles; only the call that launched goes on to
\* `_browserLaunchPromise = null`, and only when the launch did not throw
Resume(c) ==
  /\ calls[c].pc \in {"launching", "joined"}
  /\ launches[calls[c].awaits] # "pending"
  /\ IF launches[calls[c].awaits] = "fulfilled"
       THEN /\ calls' = [calls EXCEPT ![c] = [@ EXCEPT !.pc = "context",
                                                      !.browser = calls[c].awaits]]
            /\ browserLaunchPromise' =
                 IF calls[c].pc = "launching" THEN 0 ELSE browserLaunchPromise
       ELSE /\ calls' = [calls EXCEPT ![c] = Throw(c)]
            /\ UNCHANGED browserLaunchPromise
  /\ UNCHANGED <<pipeVars, scrapeVars, serviceVars, callVars, sharedBrowser, launches, connected, open>>

\* Browser b closes or crashes: `connected` turns false and 'disconnected'
\* is emitted in one step; every context and page of b is gone.  The event
\* is a task of its own, no continuation of a settled promise is pending.
Disconnected(b) ==
  /\ b \in connected
  /\ ~ContinuationPending
  /\ connected' = connected \ {b}
  /\ sharedBrowser' = 0
  /\ browserLaunchPromise' = 0
  /\ open' = {s \in open : calls[s[1]].browser # b}
  /\ UNCHANGED <<pipeVars, scrapeVars, serviceVars, callVars, launches, calls>>

\* context = await browser.createBrowserContext()
CreateBrowserContext(c) ==
  /\ calls[c].pc = "context"
  /\ \/ /\ calls[c].browser \in connected
        /\ open' = open \cup {<<c, "context">>}
        /\ calls' = [calls EXCEPT ![c] = [@ EXCEPT !.pc = "page", !.context = TRUE,
                                                  !.opened = @ \cup {"context"}]]
     \/ /\ calls' = [calls EXCEPT ![c] = Throw(c)]
        /\ UNCHANGED open
  /\ UNCHANGED <<pipeVars, scrapeVars, serviceVars, callVars, sharedBrowser, browserLaunchPromise,
                 launches, connected>>

\* page = await context.newPage()
NewPage(c) ==
  /\ calls[c].pc = "page"
  /\ \/ /\ <<c, "context">> \in open
        /\ open' = open \cup {<<c, "page">>}
        /\ calls' = [calls EXCEPT ![c] = [@ EXCEPT !.pc = "goto", !.page = TRUE,
                                                  !.opened = @ \cup {"page"}]]
     \/ /\ calls' = [calls EXCEPT ![c] = Throw(c)]
        /\ UNCHANGED open
  /\ UNCHANGED <<pipeVars, scrapeVars, serviceVars, callVars, sharedBrowser, browserLaunchPromise,
                 launches, connected>>

\* The awaits from page.setUserAgent to page.goto: the page is set up and
\* loaded, or one of them throws
Goto(c) ==
  /\ calls[c].pc = "goto"
  /\ \/ /\ <<c, "page">> \in open
        /\ calls' = [calls EXCEPT ![c] = [@ EXCEPT !.pc = "content"]]
     \/ calls' = [calls EXCEPT ![c] = Throw(c)]
  /\ UNCHANGED <<pipeVars, scrapeVars, serviceVars, callVars, sharedBrowser, browserLaunchPromise,
                 launches, connected, open>>

\* waitForSelector (its throw is caught), delay, `html = await
\* page.content()`: return html, or page.content throws; finally runs
Content(c) ==
  /\ calls[c].pc = "content"
  /\ \/ /\ <<c, "page">> \in open
        /\ calls' = [calls EXCEPT ![c] =
                       [@ EXCEPT !.pc = FinallyFrom(calls[c].page, calls[c].context, FALSE)]]
     \/ calls' = [calls EXCEPT ![c] = Throw(c)]
  /\ UNCHANGED <<pipeVars, scrapeVars, serviceVars, callVars, sharedBrowser, browserLaunchPromise,
                 launches, connected, open>>

\* finally: `await page.close()` is over (it throws only when the page is
\* gone already, and the throw is caught)
ClosePage(c) ==
  /\ calls[c].pc = "closePage"
  /\ open' = open \ {<<c, "page">>}
  /\ calls' = [calls EXCEPT ![c] =
                 [@ EXCEPT !.pc = FinallyFrom(FALSE, calls[c].context, calls[c].failed)]]
  /\ UNCHANGED <<pipeVars, scrapeVars, serviceVars, callVars, sharedBrowser, browserLaunchPromise,
                 launches, connected>>

\* finally: `await context.close()` is over; a context closes its pages
CloseContext(c) ==
  /\ calls[c].pc = "closeContext"
  /\ open' = open \ {<<c, "context">>, <<c, "page">>}
  /\ calls' = [calls EXCEPT ![c] =
                 [@ EXCEPT !.pc = FinallyFrom(FALSE, FALSE, calls[c].failed)]]
  /\ UNCHANGED <<pipeVars, scrapeVars, serviceVars, callVars, sharedBrowser, browserLaunchPromise,
                 launches, connected>>

BrowserNext ==
  \/ \E c \in Callers : GetBrowser(c)
  \/ \E k \in DOMAIN launches : LaunchSettles(k)
  \/ \E c \in Callers : Resume(c)
  \/ \E b \in connected : Disconnected(b)
  \/ \E c \in Callers : CreateBrowserContext(c)
  \/ \E c \in Callers : NewPage(c)
  \/ \E c \in Callers : Goto(c)
  \/ \E c \in Callers : Content(c)
  \/ \E c \in Callers : ClosePage(c)
  \/ \E c \in Callers : CloseContext(c)

(***************************************************************************)
(* One call of ProductMatcher.deduplicateByWebsite, on the list of one     *)
(* website after the price filter.                                         *)
(***************************************************************************)
\* The longest list handed to deduplicateByWebsite
MaxDedupLen == 3

\* Products that passed RULE 2; the second and the fourth hold one price
DedupPool ==
  { [title |-> "Apple iPhone 15 (128GB) Blue", price |-> 300],
    [title |-> "Apple iPhone 15 (Black, 128 GB)", price |-> 200],
    [title |-> "Apple iPhone 15 (128GB) Black", price |-> 100],
    [title |-> "Apple iPhone 15 (128GB) Black", price |-> 200] }

\* The products of a page are objects of their own: each carries the
\* position it was listed at
Listed(l) ==
  [i \in DOMAIN l |->
     [platform |-> Platforms[1], title |-> l[i].title, price |-> l[i].price,
      availability |-> TRUE, position |-> i]]

DedupLists == {Listed(l) : l \in SeqsUpTo(DedupPool, MaxDedupLen)}

DedupInit ==
  /\ PipeIdle("dedup")
  /\ ScrapeIdle
  /\ ServiceIdle
  /\ BrowserIdle
  /\ callee = "deduplicateByWebsite"
  /\ args \in {<<l>> : l \in DedupLists}
  /\ returned = <<>>

\* rawResults = productMatcher.deduplicateByWebsite(rawResults)
CallDeduplicate ==
  /\ callee = "deduplicateByWebsite"
  /\ returned = <<>>
  /\ returned' = <<deduplicateByWebsite(args[1])>>
  /\ UNCHANGED <<pipeVars, scrapeVars, serviceVars, browserVars, callee, args>>

(***************************************************************************)
(* One call of SearchService.scoreRelevance.                               *)
(***************************************************************************)
RelevanceQueries ==
  { "iPhone 15", "iphone 15 case", "Samsung Galaxy S24", "dell laptop",
    "dell 15 laptop", "smartphone", "nike shoes", "gaming headphones" }

RelevanceTitles ==
  TitlePool \cup
  { "Apple iPhone 14 (128GB) Blue",
    "Apple iPhone 15 Pro Max (256GB) Natural Titanium",
    "Dell Inspiron 15 Laptop",
    "Dell 15 Laptop (8GB)",
    "Samsung 25W Charger for Galaxy S24",
    "Samsung Galaxy S24 Back-Cover",
    "Nike Men Cotton T-Shirt",
    "Nike Revolution 7 Running Shoes",
    "Gaming Headphones with Mic",
    "Smartphone Tripod Stand" }

RelevanceInit ==
  /\ PipeIdle("relevance")
  /\ ScrapeIdle
  /\ ServiceIdle
  /\ BrowserIdle
  /\ callee = "scoreRelevance"
  /\ args \in {<<q, t>> : q \in RelevanceQueries, t \in RelevanceTitles}
  /\ returned = <<>>

\* const score = this.scoreRelevance(searchQuery, product.title)
CallScoreRelevance ==
  /\ callee = "scoreRelevance"
  /\ returned = <<>>
  /\ returned' = <<scoreRelevance(args[1], args[2])>>
  /\ UNCHANGED <<pipeVars, scrapeVars, serviceVars, browserVars, callee, args>>

(***************************************************************************)
(* BaseScraper.extractPrice.  A JavaScript number is the record of its     *)
(* whole part and of the digits of its fraction without trailing zeros, so *)
(* that no decimal is rounded; nan says that parseFloat found no number,   *)
(* neg that it found a minus sign.  parseFloat is modelled on texts that   *)
(* hold no exponent and not the word Infinity.                             *)
(***************************************************************************)
Rupee == "₹"

\* The price under which extractPrice takes a number for no price
PriceThreshold == 100

\* The character of s at position i, "" outside s
At(s, i) == IF i \in 1..Len(s) THEN SubSeq(s, i, i) ELSE ""

\* The first position from p on whose character is not one of chars
RunEnd(s, p, chars) ==
  CHOOSE q \in p..(Len(s) + 1) :
    /\ \A i \in p..(q - 1) : Includes(chars, At(s, i))
    /\ ~(q <= Len(s) /\ Includes(chars, At(s, q)))

\* s without the characters of chars
RECURSIVE Without(_, _)
Without(s, chars) ==
  IF s = "" THEN ""
  ELSE (IF Includes(chars, CharAt(s, 1)) THEN "" ELSE CharAt(s, 1))
         \o Without(SubSeq(s, 2, Len(s)), chars)

DigitOf(c) == CHOOSE d \in 0..9 : ToString(d) = c

RECURSIVE DigitsValue(_)
DigitsValue(digits) ==
  IF digits = "" THEN 0
  ELSE 10 * DigitsValue(SubSeq(digits, 1, Len(digits) - 1)) + DigitOf(CharAt(digits, Len(digits)))

RECURSIVE StripZeros(_)
StripZeros(digits) ==
  IF digits # "" /\ CharAt(digits, Len(digits)) = "0"
    THEN StripZeros(SubSeq(digits, 1, Len(digits) - 1))
    ELSE digits

NaN == [nan |-> TRUE, neg |-> FALSE, whole |-> 0, frac |-> ""]

Number(neg, whole, frac) == [nan |-> FALSE, neg |-> neg, whole |-> whole, frac |-> frac]

\* parseFloat(text): an optional sign, digits, an optional point and digits;
\* what follows is ignored, and without a digit the result is NaN
parseFloat(text) ==
  LET Parse(signed, from) ==
        LET Fraction(point) ==
              IF At(text, point) = "."
                THEN SubSeq(text, point + 1, RunEnd(text, point + 1, DigitChars) - 1)
                ELSE ""
            Build(wholeDigits, fracDigits) ==
              IF wholeDigits = "" /\ fracDigits = "" THEN NaN
              ELSE Number(signed = "-", DigitsValue(wholeDigits), StripZeros(fracDigits))
            To(point) == Build(SubSeq(text, from, point - 1), Fraction(point))
        IN  To(RunEnd(text, from, DigitChars))
      Signed(c) == IF c = "-" \/ c = "+" THEN Parse(c, 2) ELSE Parse("", 1)
  IN  Signed(At(text, 1))

\* val >= 100: the whole part decides, whatever the fraction
AtLeastThreshold_Positive(val) ==
  ~val.nan /\ ~val.neg /\ (val.whole > 0 \/ val.frac # "")

AtLeastThreshold(val) == ~val.nan /\ ~val.neg /\ val.whole >= PriceThreshold

\* a - b < 0 for two numbers that are not negative: the fractions compare
\* as their digits do, a missing digit being 0
RECURSIVE FracLess(_, _)
FracLess(f, g) ==
  IF g = "" THEN FALSE
  ELSE IF f = "" THEN TRUE
  ELSE IF CharAt(f, 1) # CharAt(g, 1) THEN DigitOf(CharAt(f, 1)) < DigitOf(CharAt(g, 1))
  ELSE FracLess(SubSeq(f, 2, Len(f)), SubSeq(g, 2, Len(g)))

Less(a, b) == a.whole < b.whole \/ (a.whole = b.whole /\ FracLess(a.frac, b.frac))

\* ([\d,]+(?:\.\d{1,2})?) at position p of str: <<>> when it does not
\* match there, else <<match[1]>>
AmountAt(str, p) ==
  LET Capture(q) ==
        IF At(str, q) = "." /\ IsDigit(At(str, q + 1))
          THEN SubSeq(str, p, IF IsDigit(At(str, q + 2)) THEN q + 2 ELSE q + 1)
          ELSE SubSeq(str, p, q - 1)
      Upto(q) == IF q = p THEN <<>> ELSE <<Capture(q)>>
  IN  Upto(RunEnd(str, p, DigitChars \o ","))

\* The positions where /₹\s*(...)/g and /Rs\.?\s*(...)/gi match, each with
\* the position its amount starts at.  A match holds no second symbol, so
\* the matches of exec's loop are the matches at every symbol.
Anchors(str) ==
  {<<p, RunEnd(str, p + 1, " ")>> : p \in {i \in 1..Len(str) : At(str, i) = Rupee}}
  \cup
  {<<p, RunEnd(str, IF At(str, p + 2) = "." THEN p + 3 ELSE p + 2, " ")>> :
     p \in {i \in 1..Len(str) : ToLowerCase(SubSeq(str, i, i)) = "r"
                                  /\ ToLowerCase(At(str, i + 1)) = "s"}}

\* parseFloat(match[1].replace(/,/g, '')) of every match that is a number
AnchoredAmounts(str) ==
  {v \in {parseFloat(Without(AmountAt(str, a[2])[1], ",")) :
            a \in {b \in Anchors(str) : AmountAt(str, b[2]) # <<>>}} : ~v.nan}

\* candidatePrices.sort((a, b) => a - b)[0]
Lowest(prices) == CHOOSE v \in prices : \A w \in prices : ~Less(w, v)

\* .replace(/Rs\.?/gi, '')
RECURSIVE RemoveRs(_)
RemoveRs(s) ==
  IF s = "" THEN ""
  ELSE IF ToLowerCase(SubSeq(s, 1, 1)) = "r" /\ ToLowerCase(At(s, 2)) = "s"
         THEN RemoveRs(SubSeq(s, IF At(s, 3) = "." THEN 4 ELSE 3, Len(s)))
         ELSE CharAt(s, 1) \o RemoveRs(SubSeq(s, 2, Len(s)))

\* .replace(/\.(\d{3})(?!\d)/g, '$1'): rest is what is left to scan of s
RECURSIVE DropThousandDots(_, _)
DropThousandDots(s, i) ==
  IF i > Len(s) THEN ""
  ELSE IF At(s, i) = "." /\ IsDigit(At(s, i + 1)) /\ IsDigit(At(s, i + 2))
            /\ IsDigit(At(s, i + 3)) /\ ~IsDigit(At(s, i + 4))
         THEN SubSeq(s, i + 1, i + 3) \o DropThousandDots(s, i + 4)
         ELSE At(s, i) \o DropThousandDots(s, i + 1)

\* null
NoPrice == NaN

\* Strategy 2 of extractPrice
plainNumber(str) ==
  LET Valid(price) ==
        IF price.nan \/ price.neg \/ (price.whole = 0 /\ price.frac = "")
             \/ ~AtLeastThreshold(price)
          THEN NoPrice ELSE price
      Parsed(cleaned) ==
        IF cleaned = "" THEN NoPrice
        ELSE Valid(parseFloat(DropThousandDots(cleaned, 1)))
  IN  Parsed(Trim(RemoveRs(Without(str, Rupee \o "$, "))))

\* extractPrice(priceText) for a string; NoPrice stands for null
extractPrice(priceText) ==
  LET From(candidatePrices, str) ==
        IF candidatePrices # {} THEN Lowest(candidatePrices) ELSE plainNumber(str)
      Of(str) ==
        IF Len(str) < 2 THEN NoPrice
        ELSE From({v \in AnchoredAmounts(str) : AtLeastThreshold(v)}, str)
  IN  Of(Trim(priceText))

(***************************************************************************)
(* One call of extractPrice on the text of a price element.                *)
(***************************************************************************)
PricePrefixes == {"", Rupee, Rupee \o " ", "Rs. ", "Rs", "rs.", "$", "MRP " \o Rupee}

PriceAmounts == {"1", "99", "100", "1,499", "79,900", "99.99", "149.50", "1.499", "0"}

PriceTexts ==
  {a \o n : a \in PricePrefixes, n \in PriceAmounts}
  \cup
  { "", Rupee, Rupee \o ",", "abc", "-500", "12 ratings", "1.499.000", "100.12345",
    "  " \o Rupee \o " 1,299  ",
    "Rs.1,29,900",
    Rupee \o "1,499 " \o Rupee \o "999",
    Rupee \o "79,900 " \o Rupee \o "89,900",
    Rupee \o "999.50 " \o Rupee \o "999.5 " \o Rupee \o "999.05",
    "M.R.P.: " \o Rupee \o "2,999 " \o Rupee \o "1,999 (33% off)",
    Rupee \o "50 " \o Rupee \o "60",
    Rupee \o "50 off on 200",
    Rupee \o "99 Rs. 150",
    "Offers 500" }

PriceInit ==
  /\ PipeIdle("price")
  /\ ScrapeIdle
  /\ ServiceIdle
  /\ BrowserIdle
  /\ callee = "extractPrice"
  /\ args \in {<<t>> : t \in PriceTexts}
  /\ returned = <<>>

\* const price = this.extractPrice(priceText)
CallExtractPrice ==
  /\ callee = "extractPrice"
  /\ returned = <<>>
  /\ returned' = <<extractPrice(args[1])>>
  /\ UNCHANGED <<pipeVars, scrapeVars, serviceVars, browserVars, callee, args>>

(***************************************************************************)
(* The parsers of the sources: what search makes of a page that passed     *)
(* the length test.                                                        *)
(***************************************************************************)
\* The extraction strategies of a source, in the order its parser has them
Strategies(platform) ==
  CASE platform = "amazon"   -> <<"data-component-type", "s-result-item">>
    [] platform = "flipkart" -> <<"__NEXT_DATA__", "__INITIAL_STATE__", "a[href*=/p/]">>
    [] platform = "myntra"   -> <<"__myx;", "__myx", "searchData", "product-base",
                                  "product-productMetaInfo">>

\* How many candidates a parser collects: Math.max(maxResults, 20) for
\* Amazon, maxResults for the others
InternalLimit(platform, limit) ==
  IF platform = "amazon" THEN (IF limit > 20 THEN limit ELSE 20) ELSE limit

\* An element a strategy finds on the page; valid: it has the title, the
\* price and the link the strategy asks for
Item(id, valid) == [id |-> id, valid |-> valid]

\* What one strategy may find on a page
ItemLists ==
  { <<>>,
    <<Item(1, FALSE)>>,
    <<Item(1, TRUE)>>,
    <<Item(1, FALSE), Item(2, TRUE)>>,
    <<Item(1, TRUE), Item(2, TRUE)>> }

\* The limits a caller passes to search
ExtractLimits == {1, 10}

\* `.each((index, element) => { if (results.length >= limit) return false;
\* ... results.push(...) })`: the valid elements are pushed up to the limit
RECURSIVE PushValid(_, _, _)
PushValid(results, items, limit) ==
  IF items = <<>> \/ Len(results) >= limit THEN results
  ELSE PushValid(IF Head(items).valid THEN Append(results, Head(items)) ELSE results,
                 Tail(items), limit)

\* What strategy i adds to results.  The patterns of Myntra's embedded data
\* slice the products first and filter them afterwards
StrategyYield(platform, i, results, items, limit) ==
  IF platform = "myntra" /\ i <= 3
    THEN results \o SelectSeq(Slice0(items, limit), LAMBDA it : it.valid)
    ELSE PushValid(results, items, InternalLimit(platform, limit))

\* A strategy that runs whatever the strategies before it found
RunsNext_Always(results) == TRUE

\* `if (results.length === 0)` before a strategy; a pattern of Myntra's
\* embedded data is reached when no pattern before it returned
RunsNext(results) == results = <<>>

\* The strategies from the i-th on; ran collects those that ran
RECURSIVE ExtractLoop(_, _, _, _, _, _)
ExtractLoop(platform, page, limit, i, results, ran) ==
  IF i > Len(Strategies(platform)) THEN [results |-> results, ran |-> ran]
  ELSE IF RunsNext(results)
    THEN ExtractLoop(platform, page, limit, i + 1,
                     StrategyYield(platform, i, results, page[i], limit), ran \cup {i})
    ELSE ExtractLoop(platform, page, limit, i + 1, results, ran)

\* AmazonScraper.parseSearchResults; extractFromEmbeddedData and
\* parseSearchResultsDOM in FlipkartScraper.search; extractFromEmbeddedSearchData
\* and parseSearchResultsDOM in MyntraScraper.search
parseSearchResults(platform, page, limit) ==
  ExtractLoop(platform, page, limit, 1, <<>>, {})

\* The pages of a source: what each of its strategies finds
Pages(platform) == [DOMAIN Strategies(platform) -> ItemLists]

ExtractInit ==
  /\ PipeIdle("extract")
  /\ ScrapeIdle
  /\ ServiceIdle
  /\ BrowserIdle
  /\ callee = "parseSearchResults"
  /\ args \in UNION {{<<p, page, l>> : page \in Pages(p), l \in ExtractLimits} :
                     p \in PlatformSet}
  /\ returned = <<>>

\* const results = this.parseSearchResults(html, maxResults)
CallParseSearchResults ==
  /\ callee = "parseSearchResults"
  /\ returned = <<>>
  /\ returned' = <<parseSearchResults(args[1], args[2], args[3])>>
  /\ UNCHANGED <<pipeVars, scrapeVars, serviceVars, browserVars, callee, args>>

InitExtract == ExtractInit

SpecExtract == InitExtract /\ [][CallParseSearchResults]_vars

(***************************************************************************)
(* applyRelevanceFilter on the raw list of one website: RULE 2 to RULE 5.  *)
(***************************************************************************)
\* The longest raw list of the website
MaxSourceRaw == 3

\* What the website's search returned: a model of last year at a lower
\* price, and a product under the price floor, among the products asked for
SourcePool ==
  { [title |-> "Apple iPhone 15 (128GB) Black", price |-> 200],
    [title |-> "Apple iPhone 15 (Blue, 256 GB)", price |-> 300],
    [title |-> "Apple iPhone 14 (128GB) Black", price |-> 150],
    [title |-> "Apple iPhone 15 (128GB) Black", price |-> 99] }

SourceLists == {Listed(l) : l \in SeqsUpTo(SourcePool, MaxSourceRaw)}

\* The limits a caller passes to searchAll
SourceLimits == {1, 5, 10}

SourceInit ==
  /\ PipeIdle("source")
  /\ ScrapeIdle
  /\ ServiceIdle
  /\ BrowserIdle
  /\ callee = "applyRelevanceFilter"
  /\ args \in {<<l, q, n>> : l \in SourceLists, q \in QueryPool, n \in SourceLimits}
  /\ returned = <<>>

\* The callback of applyRelevanceFilter's forEach for the website
CallFilterSource ==
  /\ callee = "applyRelevanceFilter"
  /\ returned = <<>>
  /\ returned' = <<PlatformFinal(args[1], args[2], args[3])>>
  /\ UNCHANGED <<pipeVars, scrapeVars, serviceVars, browserVars, callee, args>>

InitSource == SourceInit

SpecSource == InitSource /\ [][CallFilterSource]_vars

(***************************************************************************)
(* TrackingService.trackProduct and untrackProduct on one product URL,     *)
(* over the table products.                                                *)
(***************************************************************************)
\* The product URL the calls are about
TrackedUrl == "https://www.amazon.in/dp/B0CHX1W1XY"

\* How many calls of untrackProduct are made
MaxUntracks == 2

\* A row of products
Row(id, product_url, is_active) ==
  [id |-> id, product_url |-> product_url, is_active |-> is_active]

\* SELECT * FROM products WHERE product_url = $1: rows[0]
findByUrl(table, product_url) ==
  IF \E r \in table : r.product_url = product_url
    THEN <<CHOOSE r \in table : r.product_url = product_url>>
    ELSE <<>>

\* SELECT ... FROM products p ... WHERE p.id = $1: rows[0]
findById(table, id) ==
  IF \E r \in table : r.id = id THEN <<CHOOSE r \in table : r.id = id>> ELSE <<>>

\* INSERT INTO products ... ON CONFLICT (product_url) DO UPDATE SET
\* is_active = true; id is a serial
InsertProduct(table, product_url) ==
  IF \E r \in table : r.product_url = product_url
    THEN {IF r.product_url = product_url THEN [r EXCEPT !.is_active = TRUE] ELSE r :
            r \in table}
    ELSE table \cup {Row(Cardinality(table) + 1, product_url, TRUE)}

\* UPDATE products SET is_active = ... WHERE id = $1
SetActive(table, id, is_active) ==
  {IF r.id = id THEN [r EXCEPT !.is_active = is_active] ELSE r : r \in table}

TrackInit ==
  /\ PipeIdle("track")
  /\ ScrapeIdle
  /\ CallIdle
  /\ BrowserIdle
  /\ productsTable = {}
  /\ tracking = [c \in Trackers |-> NewTrack("find")]
  /\ untracks = 0
  /\ jobs = [n \in JobNames |-> 0]
  /\ isRunning = FALSE
  /\ tasks = <<>>

\* `let product = await Product.findByUrl(url)` and the branch taken: the
\* row is there and active, there and inactive, or not there
FindByUrl(c) ==
  /\ tracking[c].pc = "find"
  /\ LET product == findByUrl(productsTable, TrackedUrl)
     IN  tracking' = [tracking EXCEPT ![c] =
           [@ EXCEPT !.product = product,
                     !.pc = IF product = <<>> THEN "create"
                            ELSE IF ~product[1].is_active THEN "update"
                            ELSE "price"]]
  /\ UNCHANGED <<pipeVars, scrapeVars, callVars, browserVars, productsTable, untracks,
                 jobs, isRunning, tasks>>

\* product = await Product.update(product.id, { is_active: true })
UpdateProduct(c) ==
  /\ tracking[c].pc = "update"
  /\ productsTable' = SetActive(productsTable, tracking[c].product[1].id, TRUE)
  /\ tracking' = [tracking EXCEPT ![c] =
       [@ EXCEPT !.product = findById(productsTable', tracking[c].product[1].id),
                 !.pc = "price"]]
  /\ UNCHANGED <<pipeVars, scrapeVars, callVars, browserVars, untracks, jobs,
                 isRunning, tasks>>

\* product = await Product.create({ name, platform, product_url: url, ... })
CreateProduct(c) ==
  /\ tracking[c].pc = "create"
  /\ productsTable' = InsertProduct(productsTable, TrackedUrl)
  /\ tracking' = [tracking EXCEPT ![c] =
       [@ EXCEPT !.product = findByUrl(productsTable', TrackedUrl), !.pc = "price"]]
  /\ UNCHANGED <<pipeVars, scrapeVars, callVars, browserVars, untracks, jobs,
                 isRunning, tasks>>

\* `await this.updateProductPrice(product.id)`: it reads the row and writes
\* price_history, or it throws and the catch goes on
UpdateProductPrice(c) ==
  /\ tracking[c].pc = "price"
  /\ tracking' = [tracking EXCEPT ![c] = [@ EXCEPT !.pc = "read"]]
  /\ UNCHANGED <<pipeVars, scrapeVars, callVars, browserVars, productsTable, untracks,
                 jobs, isRunning, tasks>>

\* return await Product.findByIdWithLatestPrice(product.id)
FindByIdWithLatestPrice(c) ==
  /\ tracking[c].pc = "read"
  /\ tracking' = [tracking EXCEPT ![c] =
       [@ EXCEPT !.result = findById(productsTable, tracking[c].product[1].id),
                 !.pc = "done"]]
  /\ UNCHANGED <<pipeVars, scrapeVars, callVars, browserVars, productsTable, untracks,
                 jobs, isRunning, tasks>>

\* untrackProduct(productId) for a row the client has seen:
\* Product.deactivate(id)
UntrackProduct(r) ==
  /\ untracks < MaxUntracks
  /\ r \in productsTable
  /\ productsTable' = SetActive(productsTable, r.id, FALSE)
  /\ untracks' = untracks + 1
  /\ UNCHANGED <<pipeVars, scrapeVars, callVars, browserVars, tracking, jobs,
                 isRunning, tasks>>

TrackNext ==
  \/ \E c \in Trackers : FindByUrl(c)
  \/ \E c \in Trackers : UpdateProduct(c)
  \/ \E c \in Trackers : CreateProduct(c)
  \/ \E c \in Trackers : UpdateProductPrice(c)
  \/ \E c \in Trackers : FindByIdWithLatestPrice(c)
  \/ \E r \in productsTable : UntrackProduct(r)

InitTrack == TrackInit

SpecTrack == InitTrack /\ [][TrackNext]_vars

(***************************************************************************)
(* SchedulerService: start, stop, scheduleJob, removeJob.                  *)
(***************************************************************************)
\* How many tasks cron.schedule creates
MaxTasks == 5

\* job.stop() on the task t
StopTask(ts, t) == [ts EXCEPT ![t] = [@ EXCEPT !.running = FALSE]]

\* A scheduleJob that leaves the task of the name running
StopExisting_Skip(ts, js, name) == ts

\* if (this.jobs.has(name)) this.jobs.get(name).stop()
StopExisting(ts, js, name) ==
  IF js[name] # 0 THEN StopTask(ts, js[name]) ELSE ts

\* scheduleJob(name, schedule, task) on the scheduler sch, for a schedule
\* that cron.validate accepts: the task of the name is stopped, a task is
\* created, started and registered
scheduleJob(sch, name) ==
  LET stopped == StopExisting(sch.tasks, sch.jobs, name)
      created == Append(stopped, [name |-> name, running |-> TRUE])
  IN  [jobs |-> [sch.jobs EXCEPT ![name] = Len(created)], tasks |-> created]

\* schedulerService.start(); valid: cron.validate accepts the schedule of
\* PRICE_UPDATE_SCHEDULE, else the first scheduleJob throws
Start(valid) ==
  /\ scenario = "scheduler"
  /\ Len(tasks) + 2 <= MaxTasks
  /\ IF isRunning \/ ~valid
       THEN UNCHANGED <<jobs, isRunning, tasks>>
       ELSE LET first == scheduleJob([jobs |-> jobs, tasks |-> tasks], "priceUpdate")
                second == scheduleJob(first, "cacheCleanup")
            IN  /\ jobs' = second.jobs
                /\ tasks' = second.tasks
                /\ isRunning' = TRUE
  /\ UNCHANGED <<pipeVars, scrapeVars, callVars, browserVars, productsTable, tracking,
                 untracks>>

\* schedulerService.stop()
Stop ==
  /\ scenario = "scheduler"
  /\ tasks' = [t \in DOMAIN tasks |->
                 IF \E n \in JobNames : jobs[n] = t
                   THEN [tasks[t] EXCEPT !.running = FALSE] ELSE tasks[t]]
  /\ jobs' = [n \in JobNames |-> 0]
  /\ isRunning' = FALSE
  /\ UNCHANGED <<pipeVars, scrapeVars, callVars, browserVars, productsTable, tracking,
                 untracks>>

\* schedulerService.scheduleJob(name, schedule, task); it throws before any
\* change when cron.validate rejects the schedule
ScheduleJob(name, valid) ==
  /\ scenario = "scheduler"
  /\ Len(tasks) + 1 <= MaxTasks
  /\ IF ~valid
       THEN UNCHANGED <<jobs, tasks>>
       ELSE LET after == scheduleJob([jobs |-> jobs, tasks |-> tasks], name)
            IN  jobs' = after.jobs /\ tasks' = after.tasks
  /\ UNCHANGED <<pipeVars, scrapeVars, callVars, browserVars, productsTable, tracking,
                 untracks, isRunning>>

\* schedulerService.removeJob(name)
RemoveJob(name) ==
  /\ scenario = "scheduler"
  /\ IF jobs[name] # 0
       THEN /\ tasks' = StopTask(tasks, jobs[name])
            /\ jobs' = [jobs EXCEPT ![name] = 0]
       ELSE UNCHANGED <<jobs, tasks>>
  /\ UNCHANGED <<pipeVars, scrapeVars, callVars, browserVars, productsTable, tracking,
                 untracks, isRunning>>

SchedulerInit ==
  /\ PipeIdle("scheduler")
  /\ ScrapeIdle
  /\ ServiceIdle
  /\ CallIdle
  /\ BrowserIdle

SchedulerNext ==
  \/ \E valid \in BOOLEAN : Start(valid)
  \/ Stop
  \/ \E name \in JobNames, valid \in BOOLEAN : ScheduleJob(name, valid)
  \/ \E name \in JobNames : RemoveJob(name)

InitScheduler == SchedulerInit

SpecScheduler == InitScheduler /\ [][SchedulerNext]_vars

InitFetch == FetchInit

SpecFetch == InitFetch /\ [][FetchNext]_vars

InitBrowser == BrowserInit

InitDedup == DedupInit

InitRelevance == RelevanceInit

InitPrice == PriceInit

SpecPrice == InitPrice /\ [][CallExtractPrice]_vars

SpecRelevance == InitRelevance /\ [][CallScoreRelevance]_vars

SpecDedup == InitDedup /\ [][CallDeduplicate]_vars

SpecBrowser == InitBrowser /\ [][BrowserNext]_vars

(***************************************************************************)
(* Properties of searchAll's result.                                       *)
(***************************************************************************)
Done == pc = "done"

Final == aggregated[1]

FinalResults(p) == Final.platforms[p].results

\* searchAll returned an entry for every registered source
AllReported == DOMAIN Final.platforms = PlatformSet

\* the final lists of the sources, registration order, one after the other
Retained == Flatten([i \in DOMAIN Platforms |-> FinalResults(Platforms[i])])

\* the search of p threw
Failed(p) == settled[p] = <<>> \/ ~settled[p].success

NonDecreasing(products) ==
  \A i \in DOMAIN products : \A j \in DOMAIN products :
    i < j => products[i].price <= products[j].price

\* C1: once searchAll has completed, whatever the parsers of the sources
\* found, every product of every source's final list has a price that is
\* greater than 0 and at least 100.
C1_PriceFloor ==
  Done => \A p \in DOMAIN Final.platforms :
            \A i \in DOMAIN FinalResults(p) :
              FinalResults(p)[i].price > 0 /\ FinalResults(p)[i].price >= 100

\* A source found a product under 100 next to one it keeps
C1_Witness ==
  /\ Done
  /\ \E p \in PlatformSet :
       /\ \E i \in DOMAIN parsed[p] : parsed[p][i].price < 100
       /\ FinalResults(p) # <<>>

\* C2: once searchAll has completed, for every source and every limit of
\* the caller, the source's final list has at most 5 products.
C2_AtMostFive ==
  Done => \A p \in DOMAIN Final.platforms : Len(FinalResults(p)) <= 5

\* A source returned six products, all relevant and no two alike, under a
\* limit of 10, and five are kept
C2_Witness ==
  /\ Done
  /\ maxResults = 10
  /\ \E p \in PlatformSet :
       /\ Len(settled[p].results) = 6
       /\ \A i \in DOMAIN settled[p].results : Score(query, settled[p].results[i]) > 0
       /\ Len(FinalResults(p)) = 5
       /\ Final.platforms[p].rejectedCount = 1

\* C3: in searchAll's result no two products kept for the same source match
\* each other under doProductsMatch.
C3_NoKeptPairMatches ==
  Done => \A p \in DOMAIN Final.platforms :
            \A i \in DOMAIN FinalResults(p) : \A j \in DOMAIN FinalResults(p) :
              i # j => ~ProductsMatch(FinalResults(p)[i], FinalResults(p)[j])

\* C4: once searchAll has completed, lowestPrice is null when no product is
\* retained in any source, and otherwise its price is the minimum of the
\* prices of the products retained over all sources.
C4_LowestPrice ==
  Done /\ AllReported =>
    IF Retained = <<>>
      THEN Final.lowestPrice = <<>>
      ELSE /\ Final.lowestPrice # <<>>
           /\ \E i \in DOMAIN Retained : Retained[i].price = Final.lowestPrice[1].price
           /\ \A i \in DOMAIN Retained : Final.lowestPrice[1].price <= Retained[i].price

\* The cheapest retained product is the last source's, and the first
\* source retains dearer ones
C4_Witness ==
  /\ Done
  /\ Len(FinalResults("amazon")) = 2
  /\ Final.lowestPrice # <<>>
  /\ Final.lowestPrice[1].platform = "myntra"
  /\ \A i \in DOMAIN FinalResults("amazon") :
       FinalResults("amazon")[i].price > Final.lowestPrice[1].price

\* C5: once searchAll has completed, each source's count is the length of
\* its final list and totalResults is the sum of those lengths, whatever
\* counts the registry computed before the filter.
C5_CountsRecomputed ==
  Done /\ AllReported =>
    /\ \A p \in PlatformSet : Final.platforms[p].count = Len(FinalResults(p))
    /\ Final.totalResults = Len(Retained)

\* The registry counted more products for a source than the filter kept
C5_Witness ==
  /\ Done
  /\ \E p \in PlatformSet :
       /\ FinalResults(p) # <<>>
       /\ Len(settled[p].results) > Len(FinalResults(p))
  /\ Final.totalResults = 2

\* searchAll's result had source f not been registered: the other sources'
\* settled values through the same aggregation, filter and sort
WithoutSource(f) ==
  LET others == SelectSeq(Platforms, LAMBDA p : p # f)
  IN  applySorting(applyRelevanceFilter(
        AggregateLoop(NewAggregated,
                      [i \in DOMAIN others |->
                         [state |-> promise[others[i]], value |-> settled[others[i]]]]),
        query, maxResults))

\* C6: when exactly one of the three sources raises an error, the result has
\* exactly one entry with success = false, that entry has a non-empty error
\* message and an empty list, and the entries of the other two sources are
\* what they would be had the failing source not been queried.
C6_OneFailureIsolated ==
  Done /\ Cardinality({p \in PlatformSet : Failed(p)}) = 1 =>
    LET f == CHOOSE p \in PlatformSet : Failed(p)
    IN  /\ AllReported
        /\ {p \in PlatformSet : ~Final.platforms[p].success} = {f}
        /\ Final.platforms[f].error # <<>>
        /\ Final.platforms[f].error[1] # ""
        /\ FinalResults(f) = <<>>
        /\ \A p \in PlatformSet \ {f} :
             Final.platforms[p] = WithoutSource(f).platforms[p]

\* The first source fails and both others keep products
C6_Witness ==
  /\ Done
  /\ {p \in PlatformSet : Failed(p)} = {"amazon"}
  /\ FinalResults("flipkart") # <<>>
  /\ FinalResults("myntra") # <<>>

\* C7: when the search of every source raises an error, searchAll still
\* returns, and does not throw, a result with one entry per source, each with
\* success = false, with totalResults = 0 and lowestPrice null.
C7_AllFailReturns ==
  /\ (\A p \in PlatformSet : promise[p] \notin {"none", "pending"} /\ Failed(p))
       => status # "threw"
  /\ Done /\ (\A p \in PlatformSet : Failed(p)) =>
       /\ status = "returned"
       /\ Final.keys = Platforms
       /\ AllReported
       /\ \A p \in PlatformSet : ~Final.platforms[p].success
       /\ Final.totalResults = 0
       /\ Final.lowestPrice = <<>>

\* Every search threw and searchAll has returned
C7_Witness ==
  /\ Done
  /\ \A p \in PlatformSet : promise[p] \notin {"none", "pending"} /\ Failed(p)

\* C8: for every scraper, when every fetch of a search fails, search fails
\* with an error, so that the source is reported with success = false; a
\* source is reported with success = true and no product only when a page
\* was fetched.
C8_FetchFailureReported ==
  sPc = "done" =>
    /\ (\A i \in DOMAIN fetchLog : fetchLog[i] = "failed") => ~Reported.success
    /\ Reported.success /\ Reported.results = <<>> =>
         \E i \in DOMAIN fetchLog : fetchLog[i] = "ok"

\* C9: searchAll starts the search of every registered source before it
\* waits for any, builds the aggregated result only once every source has
\* settled, and the result has exactly one entry per registered source, each
\* telling that source's own outcome: no source's failure cancels or skips
\* another.
C9_FanOutThenJoin ==
  /\ (\E p \in PlatformSet : promise[p] \notin {"none", "pending"})
       => \A p \in PlatformSet : promise[p] # "none"
  /\ aggregated # <<>>
       => \A p \in PlatformSet : promise[p] \in {"fulfilled", "rejected"}
  /\ Done =>
       /\ Len(Final.keys) = Len(Platforms)
       /\ Range(Final.keys) = PlatformSet
       /\ AllReported
       /\ \A p \in PlatformSet :
            /\ Final.platforms[p].checked
            /\ Final.platforms[p].success = ~Failed(p)
            /\ Final.platforms[p].durationMs = settled[p].durationMs

\* The source that settles first fails, and the two that settle after it
\* are in the result with their products
C9_Witness ==
  /\ Done
  /\ Failed("flipkart")
  /\ settled["flipkart"].durationMs = 1
  /\ FinalResults("amazon") # <<>>
  /\ FinalResults("myntra") # <<>>

\* An entry of the result less its timing field
Untimed(entry) ==
  [success |-> entry.success, checked |-> entry.checked, count |-> entry.count,
   results |-> entry.results, error |-> entry.error,
   rejectedCount |-> entry.rejectedCount]

\* The entry of source p as its own search outcome alone determines it
OwnEntry(p) ==
  LET kept == StableSort(PlatformFinal(settled[p].results, query, maxResults),
                         compareProducts)
  IN  [success |-> settled[p].success, checked |-> TRUE, count |-> Len(kept),
       results |-> kept, error |-> settled[p].error,
       rejectedCount |-> Len(settled[p].results) - Len(kept)]

\* C10: whatever the order in which the sources complete, searchAll's result
\* is the same apart from its timing fields: its entries are in registration
\* order and each is determined by that source's outcome alone; and each
\* source's list and sortedAllProducts are in non-decreasing price order.
C10_OrderIndependentSorted ==
  Done =>
    /\ Final.keys = Platforms
    /\ AllReported
    /\ \A p \in PlatformSet : Untimed(Final.platforms[p]) = OwnEntry(p)
    /\ Final.totalResults = Len(Retained)
    /\ Final.lowestPrice =
         TrackLowest(<<>>, Flatten([i \in DOMAIN Platforms |->
                                      PlatformFinal(settled[Platforms[i]].results,
                                                    query, maxResults)]))
    /\ Final.sortedAllProducts = StableSort(Retained, compareProducts)
    /\ \A p \in PlatformSet : NonDecreasing(FinalResults(p))
    /\ NonDecreasing(Final.sortedAllProducts)

\* The sources complete in the reverse of their registration order, the
\* first with two products it returned dearest first, and two sources hold
\* the lowest price
C10_Witness ==
  /\ Done
  /\ settled["myntra"].durationMs = 1
  /\ settled["flipkart"].durationMs = 2
  /\ settled["amazon"].durationMs = 3
  /\ Len(FinalResults("amazon")) = 2
  /\ settled["amazon"].results[1].price > settled["amazon"].results[2].price
  /\ FinalResults("myntra") # <<>>
  /\ FinalResults("myntra")[1].price = FinalResults("amazon")[1].price

(***************************************************************************)
(* The transports of one fetch.                                            *)
(***************************************************************************)
\* The attempts of the light transport so far, and of the heavy one
LightTries == {i \in DOMAIN tries : tries[i].transport = "light"}

HeavyTries == {i \in DOMAIN tries : tries[i].transport = "heavy"}

Finished == sPc = "done"

\* C11: smartFetch tries the light transport first and at most maxRetries
\* times; the heavy transport is tried only after every light attempt has
\* failed, and once; a light attempt that succeeds ends the fetch; the fetch
\* fails only when every light attempt and the heavy attempt failed, with an
\* error that carries the light and the heavy error message.
C11_LightThenHeavyOnce ==
  scenario = "fetch" =>
    /\ Cardinality(LightTries) <= retries
    /\ Cardinality(HeavyTries) <= 1
    /\ \A i \in HeavyTries :
         /\ i = Len(tries)
         /\ Cardinality(LightTries) = retries
         /\ \A j \in LightTries : tries[j].error # ""
         /\ Finished
    /\ \A i \in LightTries :
         tries[i].error = "" => i = Len(tries) /\ Finished /\ ~outcome[1].threw
    /\ Finished =>
         (outcome[1].threw <=> \A i \in DOMAIN tries : tries[i].error # "")
    /\ Finished /\ outcome[1].threw =>
         /\ Cardinality(LightTries) = retries
         /\ Cardinality(HeavyTries) = 1
         /\ \A i \in HeavyTries : Includes(outcome[1].message, tries[i].error)
         /\ \A i \in LightTries :
              i + 1 \in HeavyTries => Includes(outcome[1].message, tries[i].error)

\* smartFetch has failed after three light attempts and the heavy one
C11_Witness ==
  /\ scenario = "fetch"
  /\ Finished
  /\ outcome[1].threw
  /\ Cardinality(LightTries) = defaultMaxRetries
  /\ Cardinality(HeavyTries) = 1
  /\ Len(waits) = 2

\* C12: during one source's search the heavy transport is attempted at most
\* once and the light transport at most maxRetries + 1 times, whatever
\* fetches fail and whatever pages are small.
C12_TransportBounds ==
  scenario = "scrape" =>
    /\ Cardinality(HeavyTries) <= 1
    /\ Cardinality(LightTries) <= defaultMaxRetries + 1

(***************************************************************************)
(* The shared browser.                                                     *)
(***************************************************************************)
\* The call of fetchWithBrowser c has returned or thrown
Over(c) == calls[c].pc \in {"returned", "threw"}

\* C13: whatever the order of the concurrent getBrowser calls and of the
\* 'disconnected' events, at most one launch of the browser is in flight,
\* and every caller that arrived while a launch was in flight receives the
\* browser of that launch, the one its starter receives.
C13_SingleFlight ==
  scenario = "browser" =>
    /\ Cardinality(InFlight) <= 1
    /\ \A c \in Callers :
         calls[c].during # 0 =>
           /\ calls[c].pc # "launching"
           /\ calls[c].awaits = calls[c].during
           /\ calls[c].browser \in {0, calls[c].during}
           /\ \A d \in Callers :
                calls[d].awaits = calls[c].during /\ calls[d].browser # 0 /\ calls[c].browser # 0
                  => calls[d].browser = calls[c].browser

\* Two callers arrived during the second launch, after the first browser
\* disconnected, and both hold the browser of that launch
C13_Witness ==
  /\ scenario = "browser"
  /\ Len(launches) = 2
  /\ \E c, d \in Callers :
       /\ calls[c].pc = "launching" \/ calls[c].browser = 2
       /\ calls[c].during = 0
       /\ calls[c].awaits = 2
       /\ calls[d].during = 2
       /\ calls[d].browser = 2
       /\ calls[c].browser = 2

\* C14: every context and page that a call of fetchWithBrowser opened is
\* closed when the call returns or throws, whichever of context creation,
\* page creation, navigation and content read fails; once every call is
\* over no context and no page is open.
C14_SessionsClosed ==
  scenario = "browser" =>
    /\ \A c \in Callers :
         Over(c) => <<c, "context">> \notin open /\ <<c, "page">> \notin open
    /\ (\A c \in Callers : Over(c)) => open = {}

\* Every call is over and the browser is still connected: one call threw
\* after it had opened a context and a page, one after it had opened a
\* context only, and one returned
C14_Witness ==
  /\ scenario = "browser"
  /\ connected # {}
  /\ \A c \in Callers : Over(c)
  /\ \E c \in Callers : calls[c].failed /\ calls[c].opened = {"context", "page"}
  /\ \E c \in Callers : calls[c].failed /\ calls[c].opened = {"context"}
  /\ \E c \in Callers : ~calls[c].failed /\ calls[c].opened = {"context", "page"}

(***************************************************************************)
(* Deduplication.                                                          *)
(***************************************************************************)
\* deduplicateByWebsite has been applied to args[1]
Deduplicated == callee = "deduplicateByWebsite" /\ returned # <<>>

\* C15: deduplicateByWebsite is idempotent: applied to its own result it
\* returns that result.
C15_DedupIdempotent ==
  Deduplicated => deduplicateByWebsite(returned[1]) = returned[1]

\* The kept products when the k-th product of list comes in
SeenBefore(list, k) == DedupLoop(<<>>, SubSeq(list, 1, k - 1))

\* The slots of seen that product matches
Hits(seen, product) == {i \in DOMAIN seen : ProductsMatch(product, seen[i])}

\* The k-th product of list matches a kept product
MatchesKept(list, k) == Hits(SeenBefore(list, k), list[k]) # {}

\* seen[i] and the incoming product match: after holds in slot i the one
\* with the lower price, the kept one when the prices are equal, and the
\* other one is neither in after nor in the final list
CheaperHolds(seen, i, product, after, final) ==
  LET Settled(winner, loser) ==
        /\ after[i] = winner
        /\ Len(after) = Len(seen)
        /\ \A j \in DOMAIN after : j # i => after[j] = seen[j]
        /\ \A j \in DOMAIN after : after[j] # loser
        /\ \A j \in DOMAIN final : final[j] # loser
  IN  IF product.price < seen[i].price
        THEN Settled(product, seen[i])
        ELSE Settled(seen[i], product)

\* C16: whenever deduplicateByWebsite finds that an incoming product
\* matches a kept product, the slot holds afterwards the one of the two with
\* the lower price (the earlier one on a tie), and the other one is absent
\* from the output.
C16_CheaperKept ==
  Deduplicated =>
    \A k \in 2 .. Len(args[1]) :
      MatchesKept(args[1], k) =>
        CheaperHolds(SeenBefore(args[1], k),
                     CHOOSE i \in Hits(SeenBefore(args[1], k), args[1][k]) :
                       \A j \in Hits(SeenBefore(args[1], k), args[1][k]) : i <= j,
                     args[1][k], SeenBefore(args[1], k + 1), returned[1])

\* A list of three matching products: the second came in at the price of
\* the kept one, the third at a lower price, and the third alone is returned
C16_Witness ==
  /\ Deduplicated
  /\ Len(args[1]) = 3
  /\ MatchesKept(args[1], 2)
  /\ MatchesKept(args[1], 3)
  /\ args[1][2].price = args[1][1].price
  /\ args[1][3].price < args[1][1].price
  /\ returned[1] = <<args[1][3]>>

(***************************************************************************)
(* Relevance.                                                              *)
(***************************************************************************)
\* scoreRelevance has been applied to the query args[1] and the title args[2]
Scored == callee = "scoreRelevance" /\ returned # <<>>

\* The words of a text, in lower case, cut at everything but letters and digits
WordsOf(text) == Range(SplitSpace(CollapseSpaces(Trim(NonAlnumToSpace(ToLowerCase(text))))))

\* The query holds an electronics keyword or a known brand as a word
LooksElectronics(searchQuery) ==
  \E w \in WordsOf(searchQuery) : w \in electronicsKeywords \/ w \in knownBrands

\* The title, as written but for the case of its letters, contains an
\* accessory keyword or an apparel keyword
NamesAccessoryOrApparel(title) ==
  \E kw \in accessoryKeywords \cup apparelKeywords : Includes(ToLowerCase(title), kw)

\* C17: for the query "iPhone 15" scoreRelevance returns a score <= 0 for
\* the title "iPhone 15 Pro Max Silicone Case" and a score > 0 for the title
\* "Apple iPhone 15 (128GB) Black"; for every query that contains an
\* electronics keyword or a known brand, every title that contains an
\* accessory keyword or an apparel keyword is rejected.
C17_AccessoriesRejected ==
  Scored =>
    /\ args = <<"iPhone 15", "iPhone 15 Pro Max Silicone Case">> => returned[1] <= 0
    /\ args = <<"iPhone 15", "Apple iPhone 15 (128GB) Black">> => returned[1] > 0
    /\ LooksElectronics(args[1]) /\ NamesAccessoryOrApparel(args[2]) => returned[1] <= 0

\* The query "Samsung Galaxy S24" was scored against a title whose only
\* fault is the keyword "charger", and it was rejected
C17_Witness ==
  /\ Scored
  /\ args = <<"Samsung Galaxy S24", "Samsung 25W Charger for Galaxy S24">>
  /\ LooksElectronics(args[1])
  /\ NamesAccessoryOrApparel(args[2])
  /\ returned[1] <= 0

\* C18: a search for "iPhone 15" keeps only iPhone 15 models: a candidate
\* titled as an iPhone 15 Pro or as an iPhone 14 is rejected by the relevance
\* filter.
C18_OtherModelsRejected ==
  Scored /\ args[1] = "iPhone 15"
         /\ args[2] \in {"Apple iPhone 15 Pro (128GB) Black",
                          "Apple iPhone 15 Pro Max (256GB) Natural Titanium",
                          "Apple iPhone 14 (128GB) Blue"}
    => returned[1] <= 0

(***************************************************************************)
(* Prices.                                                                 *)
(***************************************************************************)
\* extractPrice has been applied to the text args[1]
Extracted == callee = "extractPrice" /\ returned # <<>>

\* The number n, which has no fraction
Whole(n) == Number(FALSE, n, "")

\* C19: extractPrice returns null for "₹1", "1", "" and "Rs. 1", 79900 for
\* "₹79,900" and 1499 for "1,499"; for every text it returns null or a
\* number that is at least 100.
C19_NullOrAtLeast100 ==
  Extracted =>
    /\ args[1] \in {Rupee \o "1", "1", "", "Rs. 1"} => returned[1] = NoPrice
    /\ args[1] = Rupee \o "79,900" => returned[1] = Whole(79900)
    /\ args[1] = "1,499" => returned[1] = Whole(1499)
    /\ returned[1] = NoPrice
         \/ (~returned[1].nan /\ ~returned[1].neg /\ returned[1].whole >= 100)

\* "1,499" was read as 1499
C19_Witness ==
  /\ Extracted
  /\ args[1] = "1,499"
  /\ returned[1] = Whole(1499)

\* C20: when the text holds one or more amounts anchored at a currency
\* symbol, extractPrice returns the lowest of them that is at least 100, or
\* null when none reaches 100; the plain number strategy is used only when
\* the text holds no anchored amount.
C20_AnchoredOnly ==
  Extracted /\ Len(Trim(args[1])) >= 2 /\ AnchoredAmounts(Trim(args[1])) # {} =>
    returned[1] =
      (IF \E v \in AnchoredAmounts(Trim(args[1])) : v.whole >= 100
         THEN Lowest({v \in AnchoredAmounts(Trim(args[1])) : v.whole >= 100})
         ELSE NoPrice)

(***************************************************************************)
(* The number of products a source contributes.                            *)
(***************************************************************************)
\* C21: once searchAll has completed, every source of the result has at
\* most one product in its final list, so that the result holds at most 5
\* products in total.
C21_OnePerWebsite ==
  Done =>
    /\ \A p \in DOMAIN Final.platforms : Len(FinalResults(p)) <= 1
    /\ Len(Retained) <= 5

(***************************************************************************)
(* A scraper's search on a page that is too small.                         *)
(***************************************************************************)
\* The search is over and the page its last fetch resolved with is shorter
\* than the scraper's threshold
SmallPageFetched ==
  /\ scenario = "scrape"
  /\ sPc = "done"
  /\ fetchLog # <<>>
  /\ fetchLog[Len(fetchLog)] = "ok"
  /\ html # <<>>
  /\ html[1] < MinHtmlLength(scraper)

\* C22: for every source, when the page fetched is shorter than the
\* source's threshold, the search returns the empty list without throwing,
\* the registry reports it as a success with no product, and the search has
\* made at most one attempt after the first.
C22_SmallPageIsEmpty ==
  SmallPageFetched =>
    /\ outcome[1] = Returned(<<>>)
    /\ Reported.success
    /\ Reported.results = <<>>
    /\ attempt <= 2

(***************************************************************************)
(* The delays of makeRequest.                                              *)
(***************************************************************************)
\* The failed attempts of makeRequest that were not its last
DelayedTries == {k \in LightTries : tries[k].error # "" /\ k < retries}

\* C23: in makeRequest, after the failed attempt k (from 1) with
\* k < maxRetries a delay of 1000 * 2^(k-1) ms is taken before attempt k + 1
\* starts; no delay is taken after the last failed attempt nor after an
\* attempt that succeeded.
C23_ExponentialBackoff ==
  scenario = "fetch" =>
    /\ DOMAIN waits = DelayedTries
    /\ \A k \in DOMAIN waits : waits[k] = 1000 * 2 ^ (k - 1)
    /\ sPc = "axios" => Len(waits) = reqAttempt - 1
    /\ sPc = "backoff" => Len(waits) = reqAttempt /\ reqAttempt < retries
    /\ \A k \in LightTries : tries[k].error = "" => Len(waits) = k - 1

\* makeRequest has failed four times under maxRetries 4, with three delays
C23_Witness ==
  /\ scenario = "fetch"
  /\ retries = 4
  /\ Cardinality(LightTries) = 4
  /\ \A k \in LightTries : tries[k].error # ""
  /\ waits = <<1000, 2000, 4000>>

(***************************************************************************)
(* The life of the shared browser.                                         *)
(***************************************************************************)
\* The call c leaves getBrowser's synchronous part in this step
Arrives(c) == calls[c].pc = "start" /\ calls'[c].pc # "start"

\* The browser of the latest launch has disconnected and no launch was
\* started since
SharedDisconnected ==
  /\ launches # <<>>
  /\ launches[Len(launches)] = "fulfilled"
  /\ Len(launches) \notin connected

\* C24: no browser is launched before the first getBrowser call; a call
\* that arrives while the shared browser is connected is given that browser
\* and launches none; the first call after the shared browser disconnected
\* starts a new launch, and a call whose launch succeeded is given a
\* browser that is connected.
C24_LazyReuseRelaunch ==
  [][scenario = "browser" =>
       /\ (\A c \in Callers : calls[c].pc = "start") => launches = <<>>
       /\ \A c \in Callers :
            Arrives(c) =>
              /\ (sharedBrowser # 0 /\ sharedBrowser \in connected) =>
                   /\ launches' = launches
                   /\ calls'[c].pc = "context"
                   /\ calls'[c].browser = sharedBrowser
              /\ (launches = <<>> \/ SharedDisconnected) =>
                   /\ Len(launches') = Len(launches) + 1
                   /\ launches'[Len(launches')] = "pending"
                   /\ calls'[c].awaits = Len(launches')
       /\ \A c \in Callers :
            calls[c].pc \in {"launching", "joined"} /\ calls'[c].pc = "context" =>
              /\ calls'[c].browser = calls[c].awaits
              /\ calls'[c].browser \in connected'
              /\ calls'[c].browser = sharedBrowser'
    ]_vars

\* The first call launched browser 1, the second took it while it was
\* connected, browser 1 disconnected, and the third call launched browser 2
\* and holds it, connected
C24_Witness ==
  /\ scenario = "browser"
  /\ launches = <<"fulfilled", "fulfilled">>
  /\ connected = {2}
  /\ sharedBrowser = 2
  /\ \E c, d, e \in Callers :
       /\ calls[c].browser = 1 /\ calls[c].awaits = 1
       /\ calls[d].browser = 1 /\ calls[d].awaits = 0
       /\ calls[e].browser = 2 /\ calls[e].awaits = 2

\* The latest launch has failed and every call that awaited it has thrown
LaunchFailed ==
  /\ launches # <<>>
  /\ launches[Len(launches)] = "rejected"
  /\ ~ContinuationPending

\* C26: a getBrowser call that arrives after a launch of the shared browser
\* has failed starts a launch of its own; it is not handed the promise of
\* the launch that failed.
C26_FreshLaunchAfterFailure ==
  [][scenario = "browser" =>
       \A c \in Callers :
         Arrives(c) /\ LaunchFailed =>
           /\ Len(launches') = Len(launches) + 1
           /\ calls'[c].pc = "launching"
           /\ calls'[c].awaits = Len(launches')
    ]_vars

(***************************************************************************)
(* The order of the extraction strategies.                                 *)
(***************************************************************************)
\* parseSearchResults has been applied to the page args[2] of source args[1]
Parsed == callee = "parseSearchResults" /\ returned # <<>>

\* What strategy i finds on the page when it is the only one to run
Alone(i) == StrategyYield(args[1], i, <<>>, args[2][i], args[3])

\* Every strategy before the i-th finds nothing on the page
NoneBefore(i) == \A j \in 1 .. (i - 1) : Alone(j) = <<>>

\* C25: for every source, the strategies run in their order; a strategy
\* runs exactly when every strategy before it produced no candidate, and
\* the candidates returned are those of one strategy, the first that
\* produced any.
C25_StrategiesInOrder ==
  Parsed =>
    /\ \A i \in DOMAIN Strategies(args[1]) : i \in returned[1].ran <=> NoneBefore(i)
    /\ \/ /\ returned[1].results = <<>>
          /\ \A i \in DOMAIN Strategies(args[1]) : Alone(i) = <<>>
       \/ \E i \in returned[1].ran :
            /\ Alone(i) # <<>>
            /\ returned[1].results = Alone(i)

\* Myntra's page holds no embedded data, its .product-base strategy found
\* a candidate, and the strategy after it did not run though it would have
\* found two
C25_Witness ==
  /\ Parsed
  /\ args[1] = "myntra"
  /\ returned[1].ran = {1, 2, 3, 4}
  /\ Len(returned[1].results) = 1
  /\ Len(Alone(5)) = 2

(***************************************************************************)
(* A website's relevant product and deduplication.                         *)
(***************************************************************************)
\* applyRelevanceFilter has left args[1], the website's raw list, as
\* returned[1]
Filtered == callee = "applyRelevanceFilter" /\ returned # <<>>

\* The products of the raw list with a price of 100 or more and a score
\* above 0
RelevantPriced ==
  {i \in DOMAIN args[1] : args[1][i].price >= 100 /\ Score(args[2], args[1][i]) > 0}

\* C27: for every limit of 1 or more, when the raw list of a website holds
\* a product with a price of 100 or more and a relevance score above 0, the
\* final list of the website is not empty.
C27_RelevantSurvives ==
  Filtered /\ args[3] >= 1 /\ RelevantPriced # {} => returned[1] # <<>>

(***************************************************************************)
(* Concurrent calls of trackProduct.                                       *)
(***************************************************************************)
\* Every call of trackProduct has returned
AllTracked == \A c \in Trackers : tracking[c].pc = "done"

\* C28: whatever the interleaving of the calls of trackProduct and
\* untrackProduct for one product URL, the table holds at most one row for
\* the URL, every call of trackProduct returns that row, and the row is
\* active when the last call of trackProduct returns.
C28_OneActiveRecord ==
  /\ [](scenario = "track" =>
          /\ Cardinality({r \in productsTable : r.product_url = TrackedUrl}) <= 1
          /\ \A c \in Trackers :
               tracking[c].pc = "done" =>
                 /\ tracking[c].result # <<>>
                 /\ \E r \in productsTable :
                      r.product_url = TrackedUrl /\ r.id = tracking[c].result[1].id)
  /\ [][scenario = "track" /\ ~AllTracked /\ AllTracked' =>
          \A r \in productsTable' : r.is_active]_vars

(***************************************************************************)
(* The tasks of the scheduler.                                             *)
(***************************************************************************)
\* The tasks that were created and not stopped
LiveTasks == {t \in DOMAIN tasks : tasks[t].running}

\* C29: after any sequence of start, stop, scheduleJob and removeJob, every
\* task that was created and not stopped is the task the jobs map holds
\* under its name: a name has at most one live task and no live task is
\* missing from the map.
C29_LiveTasksRegistered ==
  scenario = "scheduler" =>
    /\ \A t \in LiveTasks : jobs[tasks[t].name] = t
    /\ \A t, u \in LiveTasks : tasks[t].name = tasks[u].name => t = u
    /\ \A n \in JobNames : jobs[n] # 0 => tasks[jobs[n]].name = n

\* The scheduler runs; the task of priceUpdate that start created was
\* replaced by a scheduleJob and is stopped, a job of another name was
\* removed, and the task of cacheCleanup is live
C29_Witness ==
  /\ scenario = "scheduler"
  /\ isRunning
  /\ \E t \in DOMAIN tasks :
       /\ tasks[t].name = "priceUpdate"
       /\ ~tasks[t].running
       /\ jobs["priceUpdate"] \in LiveTasks
  /\ \E t \in DOMAIN tasks : tasks[t].name = "report" /\ jobs["report"] = 0
  /\ jobs["cacheCleanup"] \in LiveTasks

(***************************************************************************)
(* Accessory and apparel keywords inside other words.                      *)
(***************************************************************************)
\* The phrase occurs in the text as a run of whole words
HasWholeWords(text, phrase) ==
  Includes(" " \o normalizeText(text) \o " ", " " \o normalizeText(phrase) \o " ")

\* Every token of the query is a word of the title
AllTokensWhole(searchQuery, title) ==
  \A t \in Range(tokenize(searchQuery)) : HasWholeWords(title, t)

\* When the query names a brand and a model number, the title has a brand
\* of the query with a number of the query right after it
BrandThenModel(searchQuery, title) ==
  LET brands == {t \in Range(tokenize(searchQuery)) : t \in knownBrands}
      numbers == {t \in Range(tokenize(searchQuery)) : HasDigit(t)}
  IN  brands # {} /\ numbers # {} =>
        \E b \in brands : \E n \in numbers : HasWholeWords(title, b \o " " \o n)

\* C30: for a query that is about electronics, a title that holds every
\* token of the query as a whole word, the brand with the model number
\* right after it, and no accessory or apparel keyword as a whole word,
\* gets a score above 0.
C30_WholeWordKeywords ==
  Scored /\ LooksElectronics(args[1])
         /\ AllTokensWhole(args[1], args[2])
         /\ BrandThenModel(args[1], args[2])
         /\ (\A kw \in accessoryKeywords \cup apparelKeywords :
               ~HasWholeWords(args[2], kw))
    => returned[1] > 0

====
